---- MODULE Spec2Model ----
(***************************************************************************)
(* Model of backend/spotify_auth.go of SpotiDownloader.                    *)
(*                                                                         *)
(* Part I  : the paginated fetch coordinator runTrackPageWorkers together  *)
(*           with its two callers fetchUserSavedTracks and                 *)
(*           fetchPlaylistWithTracks (specifications Spec, WideSpec and    *)
(*           LiveSpec).                                                    *)
(* Part II : the session manager spotifyAuthManager: the login flow        *)
(*           (specification AuthSpec) and status, logout and the locked    *)
(*           part of the library operations (specification SessionSpec);   *)
(*           the login flow under a fair watcher goroutine (AuthLiveSpec), *)
(*           the token store alone (StoreSpec), and all operations of the  *)
(*           manager together (ManagerSpec).                               *)
(***************************************************************************)
EXTENDS Integers, Sequences, FiniteSets, Bags, TLC

(***************************************************************************)
(* Bounds of the model.                                                    *)
(***************************************************************************)
\* largest number of pages beyond the first one that a collection has
MaxExtraPages == 2

(***************************************************************************)
(* Program constants.                                                      *)
(***************************************************************************)
spotifyWorkerCount == 8
\* limit := 50 in fetchUserSavedTracks
savedTracksLimit == 50
\* limit := 100 in fetchPlaylistWithTracks
playlistTracksLimit == 100

\* the shortest offset list that is longer than the worker pool (WideSpec)
WideOffsets == spotifyWorkerCount + 1

VARIABLES
  \* ---- inputs of one library call (fixed during a behaviour)
  caller,        \* "saved" (fetchUserSavedTracks) or "playlist" (fetchPlaylistWithTracks)
  total,         \* firstPage.Total / playlistInfo.Tracks.Total reported by the provider
  firstLen,      \* len(firstPage.Items)
  nulls,         \* positions of the collection whose item has a nil Track
  \* ---- the context passed to the call
  ctxDone,       \* ctx.Err() != nil
  \* ---- the calling goroutine (caller, then runTrackPageWorkers)
  pc,
  tracks,        \* the caller's tracks slice
  callerErr,     \* the error the caller returns
  offsets,       \* the offsets slice handed to runTrackPageWorkers
  workerCount,
  spawned,       \* loop variable i of the spawn loop
  collected,
  firstErr,
  ret,           \* what runTrackPageWorkers returned
  \* ---- the worker goroutines, a bag of [pc, offset, tracks, isNil, err]
  workers,
  \* ---- the dispatcher goroutine and the two channels
  dpc,           \* "none", "feed", "wait", "done"
  jobsNext,      \* index into offsets of the next job the dispatcher sends
  jobsClosed,
  resultsClosed,
  \* ---- history of the call
  fetchCalls,    \* offset -> number of fetch invocations started for it
  errOffsets,    \* offsets whose result carried an error
  recvCount      \* number of results the collector has received

fetchVars == <<caller, total, firstLen, nulls, ctxDone, pc, tracks, callerErr,
               offsets, workerCount, spawned, collected, firstErr, ret,
               workers, dpc, jobsNext, jobsClosed, resultsClosed,
               fetchCalls, errOffsets, recvCount>>


VARIABLES
  \* ---- spotifyAuthManager
  tokens,        \* m.tokens: [present, t]
  profile,       \* m.profile: [present, p]
  verifier,      \* m.verifier
  state,         \* m.state (0 is the empty string)
  redirect,      \* m.redirect (the port of the callback URL, 0 when unset)
  server,        \* m.server: the id of an http.Server, 0 for nil
  loginWait,     \* m.loginWait: a channel of capacity 1, or nil
  mu,            \* m.mu: the operation inside the critical section
  \* ---- the process around it
  disk,          \* the token file spotify_oauth.json
  now,           \* time.Now().Unix()
  listening,     \* ids of the servers whose listener is open
  attempts,      \* number of startLogin calls so far
  pending,       \* bag of accepted callback requests whose handler waits for m.mu
  arrived,       \* number of callback requests accepted so far
  resp,          \* the response to the callback request handled last
  \* ---- history
  exchangeCalls, \* number of exchangeCodeForToken invocations
  \* ---- the callers of status, logout and the library operations
  ops,           \* number of such calls so far
  result,        \* what the call that returned last returned
  refreshCalls,  \* number of refreshAccessToken invocations (history)
  freshAt,       \* whether the last refresh that returned a record returned
                 \* one with more than 30 s left at that reading of the
                 \* clock, and the value of refreshCalls then (history)
  \* ---- the watcher goroutines of startLogin
  watching,      \* ids of the servers whose watcher waits on ctx.Done()
  ctxFired,      \* ids of the servers whose ctx is done, watcher still to act
                 \* (both sets hold servers that were not closed yet)
  \* ---- the goroutines "go srv.Serve(ln)" of startLogin
  starting,      \* ids of the servers whose Serve has not run yet
  shutEarly,     \* those of them on which Close() was called already
  portHolder     \* the server whose open listener is bound to port 3000,
                 \* 0 when no listener of the manager holds that port

opVars == <<ops, result, refreshCalls>>

watchVars == <<watching, ctxFired>>

serveVars == <<starting, shutEarly, portHolder>>

authVars == <<tokens, profile, verifier, state, redirect, server, loginWait,
              mu, disk, now, listening, attempts, pending, arrived, resp,
              exchangeCalls, opVars, watchVars, freshAt, serveVars>>

vars == <<fetchVars, authVars>>

(***************************************************************************)
(* Values.                                                                 *)
(***************************************************************************)
Min(a, b) == IF a < b THEN a ELSE b

\* error values: nil, the error of a page fetch, ctx.Err(), and the
\* offset-tagged error built by the collector
NoErr == [kind |-> "nil", offset |-> 0, cause |-> "nil"]
CtxErr == [kind |-> "ctx", offset |-> 0, cause |-> "nil"]
PageErr(offset) == [kind |-> "page", offset |-> offset, cause |-> "http"]
OffsetErr(offset, err) == [kind |-> "failed fetching tracks at offset",
                           offset |-> offset, cause |-> err.kind]

\* a slice is a sequence plus the nil flag of Go ([]T(nil) vs. empty slice)
NilSlice == [isNil |-> TRUE, elems |-> <<>>]
Slice(s) == [isNil |-> FALSE, elems |-> s]

Limit(c) == IF c = "saved" THEN savedTracksLimit ELSE playlistTracksLimit

(***************************************************************************)
(* The provider: the items of the page at an offset. An item is            *)
(* struct{Track *trackFull}; a trackFull is identified by its ID, which is  *)
(* its position in the collection.                                         *)
(***************************************************************************)
Item(i, nullSet) ==
  IF i \in nullSet THEN [trackIsNil |-> TRUE, Track |-> [ID |-> 0]]
  ELSE [trackIsNil |-> FALSE, Track |-> [ID |-> i + 1]]

PageItemsOf(offset, limit, tot, nullSet, len) ==
  [k \in 1..len |-> Item(offset + k - 1, nullSet)]

PageLen(offset, limit, tot) ==
  IF offset >= tot THEN 0 ELSE Min(limit, tot - offset)

(***************************************************************************)
(* Track Normalizer.                                                       *)
(***************************************************************************)
convertTrackToAlbumTrack(track) == [SpotifyID |-> track.ID]

\* "present" is the test item.Track != nil of the loop body
TrackPresent(item) == ~ item.trackIsNil

ConvertKeepsPlaceholders(items) ==
  [k \in 1..Len(items) |->
     IF TrackPresent(items[k]) THEN convertTrackToAlbumTrack(items[k].Track)
     ELSE [SpotifyID |-> 0]]

\* for _, item := range items { if item.Track != nil { converted = append(...) } }
convertSavedTrackItems(items) ==
  LET kept == SelectSeq(items, TrackPresent)
  IN [k \in 1..Len(kept) |-> convertTrackToAlbumTrack(kept[k].Track)]

\* the offsets loop of the callers: limit, 2*limit, ... below total
RECURSIVE OffsetsFrom(_, _, _)
OffsetsFrom(offset, limit, tot) ==
  IF offset < tot THEN <<offset>> \o OffsetsFrom(offset + limit, limit, tot)
  ELSE <<>>

OffsetsFromZero(limit, tot) == OffsetsFrom(0, limit, tot)

OffsetsUpToTotal(limit, tot) == OffsetsFrom(limit, limit, tot + 1)

Offsets(limit, tot) == OffsetsFrom(limit, limit, tot)

\* pageFetcher on success: convertSavedTrackItems(page.Items)
PageTracks(offset) ==
  convertSavedTrackItems(
    PageItemsOf(offset, Limit(caller), total, nulls,
                PageLen(offset, Limit(caller), total)))

FirstPageTracks ==
  convertSavedTrackItems(PageItemsOf(0, Limit(caller), total, nulls, firstLen))


(***************************************************************************)
(* runTrackPageWorkers: pure parts.                                        *)
(***************************************************************************)
\* workerCount := spotifyWorkerCount; if workerCount > len(offsets) {...}
WorkerCountAlwaysEight(n) == spotifyWorkerCount

WorkerCountFor(n) == IF spotifyWorkerCount > n THEN n ELSE spotifyWorkerCount

\* a worker between two jobs
IdleWorker == [pc |-> "idle", offset |-> 0, tracks |-> NilSlice, err |-> NoErr]
ExitedWorker == [pc |-> "exit", offset |-> 0, tracks |-> NilSlice, err |-> NoErr]

\* the value a worker pushes on results
ResultOf(w) == [offset |-> w.offset, tracks |-> w.tracks, err |-> w.err]

\* if ctx.Err() != nil { results <- {offset, err: ctx.Err()}; continue }
CheckIgnoresCtx(w, done) == [w EXCEPT !.pc = "call"]

WorkerCheck(w, done) ==
  IF done THEN [w EXCEPT !.pc = "send", !.err = CtxErr]
  ELSE [w EXCEPT !.pc = "call"]

\* if res.err != nil && firstErr == nil { firstErr = fmt.Errorf(...) }
LastErrWins(fe, r) == IF r.err # NoErr THEN OffsetErr(r.offset, r.err) ELSE fe

LowestOffsetWins(fe, r) ==
  IF r.err # NoErr /\ (fe = NoErr \/ r.offset < fe.offset)
  THEN OffsetErr(r.offset, r.err) ELSE fe

NextFirstErr(fe, r) ==
  IF r.err # NoErr /\ fe = NoErr THEN OffsetErr(r.offset, r.err) ELSE fe

\* if res.tracks != nil { collected = append(collected, res) }
NextCollected(c, r) == IF ~ r.tracks.isNil THEN Append(c, r) ELSE c

\* "for res := range results" ends when results is closed
ExitOnFirstError(closed, fe) == closed \/ fe # NoErr

CollectLoopEnds(closed, fe) == closed

\* sort.Slice(collected, func(i, j) bool { return collected[i].offset < collected[j].offset })
RECURSIVE InsertByOffset(_, _)
InsertByOffset(r, s) ==
  IF s = <<>> THEN <<r>>
  ELSE IF r.offset < Head(s).offset THEN <<r>> \o s
       ELSE <<Head(s)>> \o InsertByOffset(r, Tail(s))

RECURSIVE SortFrom(_, _)
SortFrom(s, acc) ==
  IF s = <<>> THEN acc ELSE SortFrom(Tail(s), InsertByOffset(Head(s), acc))

NoSort(s) == s

SortByOffset(s) == SortFrom(s, <<>>)

\* if firstErr == nil && ctx.Err() != nil { firstErr = ctx.Err() }
FinalIgnoresCtx(fe, done) == fe

FinalFirstErr(fe, done) == IF fe = NoErr /\ done THEN CtxErr ELSE fe

\* if firstErr != nil { return nil, firstErr }; sort; return collected, nil
ReturnValue(fe, c) ==
  IF fe # NoErr THEN [results |-> NilSlice, err |-> fe]
  ELSE [results |-> Slice(SortByOffset(c)), err |-> NoErr]

\* for _, page := range results { tracks = append(tracks, page.tracks...) }
RECURSIVE AppendPages(_, _)
AppendPages(t, pages) ==
  IF pages = <<>> THEN t
  ELSE AppendPages(t \o Head(pages).tracks.elems, Tail(pages))

Replace(w, w2) == (workers (-) SetToBag({w})) (+) SetToBag({w2})
NumWorkersAt(p) ==
  BagCardinality([w \in {x \in BagToSet(workers) : x.pc = p} |-> workers[w]])

(***************************************************************************)
(* Inputs.                                                                 *)
(***************************************************************************)
\* totals around the page boundaries, up to MaxExtraPages pages beyond the first
Totals(limit) ==
  {0} \cup {p * limit + r : p \in 0..MaxExtraPages, r \in {1, limit}}

\* the provider answers the first request with a full page, or with none of
\* the items although it reports a positive total
FirstLens(limit, tot) == {PageLen(0, limit, tot), 0}

\* no nil track, one nil track in every page, or the page at offset limit
\* made of nil tracks only
NullPatterns(limit, tot) ==
  { {},
    {i \in 0..(tot - 1) : i % limit = 1},
    {i \in 0..(tot - 1) : limit <= i /\ i < 2 * limit} }

\* the locals of runTrackPageWorkers before the call
CoordinatorStart ==
  /\ callerErr = NoErr
  /\ workerCount = 0
  /\ spawned = 0
  /\ collected = <<>>
  /\ firstErr = NoErr
  /\ ret = [results |-> NilSlice, err |-> NoErr]
  /\ workers = EmptyBag
  /\ dpc = "none"
  /\ jobsNext = 1
  /\ jobsClosed = FALSE
  /\ resultsClosed = FALSE
  /\ fetchCalls = EmptyBag
  /\ errOffsets = {}
  /\ recvCount = 0

\* a library call about to request its first page
FetchInit ==
  /\ caller \in {"saved", "playlist"}
  /\ total \in Totals(Limit(caller))
  /\ firstLen \in FirstLens(Limit(caller), total)
  /\ nulls \in NullPatterns(Limit(caller), total)
  /\ ctxDone = FALSE
  /\ pc = "first"
  /\ tracks = NilSlice
  /\ offsets = <<>>
  /\ CoordinatorStart

\* fetchUserSavedTracks about to call runTrackPageWorkers with a long offset
\* list, its context cancelled after the first page arrived (every worker
\* then short-circuits, which keeps the long runs small)
WideStart ==
  /\ caller = "saved"
  /\ total = (WideOffsets + 1) * savedTracksLimit
  /\ firstLen = savedTracksLimit
  /\ nulls = {}
  /\ ctxDone = TRUE
  /\ pc = "rtpw"
  /\ tracks = Slice(FirstPageTracks)
  /\ offsets = Offsets(savedTracksLimit, total)
  /\ CoordinatorStart

(***************************************************************************)
(* The callers: fetchUserSavedTracks and fetchPlaylistWithTracks, after    *)
(* the access token was taken under the lock.                              *)
(***************************************************************************)
\* the first page (and, for a playlist, its metadata) is fetched
\* synchronously; the request may fail
CallerFirstPage ==
  /\ pc = "first"
  /\ \/ /\ callerErr' = PageErr(0)
        /\ pc' = "done"
        /\ UNCHANGED <<tracks, offsets>>
     \/ /\ tracks' = Slice(FirstPageTracks)
        /\ IF total <= firstLen
           THEN pc' = "done" /\ UNCHANGED offsets
           ELSE pc' = "rtpw" /\ offsets' = Offsets(Limit(caller), total)
        /\ UNCHANGED callerErr
  /\ UNCHANGED authVars /\ UNCHANGED <<caller, total, firstLen, nulls, ctxDone, workerCount, spawned,
                 collected, firstErr, ret, workers, dpc, jobsNext,
                 jobsClosed, resultsClosed, fetchCalls, errOffsets, recvCount>>

\* results, err := runTrackPageWorkers(...); if err != nil { return nil, err }
\* for _, page := range results { tracks = append(tracks, page.tracks...) }
CallerAppend ==
  /\ pc = "rtpw_ret"
  /\ IF ret.err # NoErr
     THEN callerErr' = ret.err /\ tracks' = NilSlice
     ELSE /\ tracks' = Slice(AppendPages(tracks.elems, ret.results.elems))
          /\ UNCHANGED callerErr
  /\ pc' = "done"
  /\ UNCHANGED authVars /\ UNCHANGED <<caller, total, firstLen, nulls, ctxDone, offsets, workerCount,
                 spawned, collected, firstErr, ret, workers, dpc, jobsNext,
                 jobsClosed, resultsClosed, fetchCalls, errOffsets, recvCount>>

(***************************************************************************)
(* runTrackPageWorkers: the calling goroutine.                             *)
(***************************************************************************)
\* if len(offsets) == 0 { return nil, nil }; workerCount := min(...)
Entry ==
  /\ pc = "rtpw"
  /\ IF Len(offsets) = 0
     THEN /\ ret' = [results |-> NilSlice, err |-> NoErr]
          /\ pc' = "rtpw_ret"
          /\ UNCHANGED workerCount
     ELSE /\ workerCount' = WorkerCountFor(Len(offsets))
          /\ pc' = "spawn"
          /\ UNCHANGED ret
  /\ UNCHANGED authVars /\ UNCHANGED <<caller, total, firstLen, nulls, ctxDone, tracks, callerErr,
                 offsets, spawned, collected, firstErr, workers, dpc,
                 jobsNext, jobsClosed, resultsClosed, fetchCalls, errOffsets,
                 recvCount>>

\* for i := 0; i < workerCount; i++ { wg.Add(1); go func() {...}() }
SpawnWorker ==
  /\ pc = "spawn"
  /\ spawned < workerCount
  /\ spawned' = spawned + 1
  /\ workers' = workers (+) SetToBag({IdleWorker})
  /\ UNCHANGED authVars /\ UNCHANGED <<caller, total, firstLen, nulls, ctxDone, pc, tracks, callerErr,
                 offsets, workerCount, collected, firstErr, ret, dpc,
                 jobsNext, jobsClosed, resultsClosed, fetchCalls, errOffsets,
                 recvCount>>

\* go func() { for _, offset := range offsets {...} ... }()
SpawnDispatcher ==
  /\ pc = "spawn"
  /\ spawned >= workerCount
  /\ dpc' = "feed"
  /\ pc' = "collect"
  /\ UNCHANGED authVars /\ UNCHANGED <<caller, total, firstLen, nulls, ctxDone, tracks, callerErr,
                 offsets, workerCount, spawned, collected, firstErr, ret,
                 workers, jobsNext, jobsClosed, resultsClosed, fetchCalls,
                 errOffsets, recvCount>>

\* one iteration of "for res := range results": the rendezvous of a worker's
\* "results <- ..." with the collector's receive, and the loop body
Collect(w) ==
  /\ pc = "collect"
  /\ ~ CollectLoopEnds(resultsClosed, firstErr)
  /\ w.pc = "send"
  /\ firstErr' = NextFirstErr(firstErr, ResultOf(w))
  /\ collected' = NextCollected(collected, ResultOf(w))
  /\ workers' = Replace(w, IdleWorker)
  /\ recvCount' = recvCount + 1
  /\ errOffsets' = IF w.err # NoErr THEN errOffsets \cup {w.offset} ELSE errOffsets
  /\ UNCHANGED authVars /\ UNCHANGED <<caller, total, firstLen, nulls, ctxDone, pc, tracks, callerErr,
                 offsets, workerCount, spawned, ret, dpc, jobsNext, jobsClosed,
                 resultsClosed, fetchCalls>>

\* the range loop ends
CollectDone ==
  /\ pc = "collect"
  /\ CollectLoopEnds(resultsClosed, firstErr)
  /\ pc' = "final"
  /\ UNCHANGED authVars /\ UNCHANGED <<caller, total, firstLen, nulls, ctxDone, tracks, callerErr,
                 offsets, workerCount, spawned, collected, firstErr, ret,
                 workers, dpc, jobsNext, jobsClosed, resultsClosed, fetchCalls,
                 errOffsets, recvCount>>

\* the final cancellation check, the sort and the return
Final ==
  /\ pc = "final"
  /\ firstErr' = FinalFirstErr(firstErr, ctxDone)
  /\ ret' = ReturnValue(firstErr', collected)
  /\ collected' = IF firstErr' = NoErr THEN SortByOffset(collected) ELSE collected
  /\ pc' = "rtpw_ret"
  /\ UNCHANGED authVars /\ UNCHANGED <<caller, total, firstLen, nulls, ctxDone, tracks, callerErr,
                 offsets, workerCount, spawned, workers, dpc, jobsNext,
                 jobsClosed, resultsClosed, fetchCalls, errOffsets, recvCount>>

(***************************************************************************)
(* runTrackPageWorkers: the workers.                                       *)
(***************************************************************************)
DispatchRepeatsOffset(w) ==
  /\ dpc = "feed"
  /\ jobsNext <= Len(offsets)
  /\ w.pc = "idle"
  /\ workers' = Replace(w, [w EXCEPT !.pc = "check", !.offset = offsets[jobsNext]])
  /\ jobsNext' = jobsNext
  /\ UNCHANGED authVars /\ UNCHANGED <<caller, total, firstLen, nulls, ctxDone, pc, tracks, callerErr,
                 offsets, workerCount, spawned, collected, firstErr, ret,
                 dpc, jobsClosed, resultsClosed, fetchCalls, errOffsets,
                 recvCount>>

\* the rendezvous of the dispatcher's "jobs <- offset" with a worker's
\* "for offset := range jobs"
DispatchJob(w) ==
  /\ dpc = "feed"
  /\ jobsNext <= Len(offsets)
  /\ w.pc = "idle"
  /\ workers' = Replace(w, [w EXCEPT !.pc = "check", !.offset = offsets[jobsNext]])
  /\ jobsNext' = jobsNext + 1
  /\ UNCHANGED authVars /\ UNCHANGED <<caller, total, firstLen, nulls, ctxDone, pc, tracks, callerErr,
                 offsets, workerCount, spawned, collected, firstErr, ret,
                 dpc, jobsClosed, resultsClosed, fetchCalls, errOffsets,
                 recvCount>>

\* if ctx.Err() != nil
CheckCtx(w) ==
  /\ w.pc = "check"
  /\ workers' = Replace(w, WorkerCheck(w, ctxDone))
  /\ UNCHANGED authVars /\ UNCHANGED <<caller, total, firstLen, nulls, ctxDone, pc, tracks, callerErr,
                 offsets, workerCount, spawned, collected, firstErr, ret,
                 dpc, jobsNext, jobsClosed, resultsClosed, fetchCalls,
                 errOffsets, recvCount>>

\* fetch(offset) is invoked
FetchCall(w) ==
  /\ w.pc = "call"
  /\ workers' = Replace(w, [w EXCEPT !.pc = "infetch"])
  /\ fetchCalls' = fetchCalls (+) SetToBag({w.offset})
  /\ UNCHANGED authVars /\ UNCHANGED <<caller, total, firstLen, nulls, ctxDone, pc, tracks, callerErr,
                 offsets, workerCount, spawned, collected, firstErr, ret,
                 dpc, jobsNext, jobsClosed, resultsClosed, errOffsets,
                 recvCount>>

\* fetch(offset) returns the converted page, or an error
FetchReturn(w) ==
  /\ w.pc = "infetch"
  /\ \/ workers' = Replace(w, [w EXCEPT !.pc = "send",
                                        !.tracks = Slice(PageTracks(w.offset))])
     \/ workers' = Replace(w, [w EXCEPT !.pc = "send", !.err = PageErr(w.offset)])
  /\ UNCHANGED authVars /\ UNCHANGED <<caller, total, firstLen, nulls, ctxDone, pc, tracks, callerErr,
                 offsets, workerCount, spawned, collected, firstErr, ret,
                 dpc, jobsNext, jobsClosed, resultsClosed, fetchCalls,
                 errOffsets, recvCount>>

\* "range jobs" ends on the closed channel; defer wg.Done()
WorkerExit(w) ==
  /\ w.pc = "idle"
  /\ jobsClosed
  /\ workers' = Replace(w, ExitedWorker)
  /\ UNCHANGED authVars /\ UNCHANGED <<caller, total, firstLen, nulls, ctxDone, pc, tracks, callerErr,
                 offsets, workerCount, spawned, collected, firstErr, ret,
                 dpc, jobsNext, jobsClosed, resultsClosed, fetchCalls,
                 errOffsets, recvCount>>

(***************************************************************************)
(* runTrackPageWorkers: the dispatcher.                                    *)
(***************************************************************************)
\* close(jobs)
CloseJobs ==
  /\ dpc = "feed"
  /\ jobsNext > Len(offsets)
  /\ jobsClosed' = TRUE
  /\ dpc' = "wait"
  /\ UNCHANGED authVars /\ UNCHANGED <<caller, total, firstLen, nulls, ctxDone, pc, tracks, callerErr,
                 offsets, workerCount, spawned, collected, firstErr, ret,
                 workers, jobsNext, resultsClosed, fetchCalls, errOffsets,
                 recvCount>>

\* wg.Wait() returns once every worker has called wg.Done()
WaitGroupDone == NumWorkersAt("exit") = spawned

\* wg.Wait(); close(results)
CloseResults ==
  /\ dpc = "wait"
  /\ WaitGroupDone
  /\ resultsClosed' = TRUE
  /\ dpc' = "done"
  /\ UNCHANGED authVars /\ UNCHANGED <<caller, total, firstLen, nulls, ctxDone, pc, tracks, callerErr,
                 offsets, workerCount, spawned, collected, firstErr, ret,
                 workers, jobsNext, jobsClosed, fetchCalls, errOffsets,
                 recvCount>>

(***************************************************************************)
(* The environment: the caller's context is cancelled while the call runs. *)
(***************************************************************************)
Cancel ==
  /\ ~ ctxDone
  /\ pc \in {"first", "rtpw", "spawn", "collect", "final"}
  /\ ctxDone' = TRUE
  /\ UNCHANGED authVars /\ UNCHANGED <<caller, total, firstLen, nulls, pc, tracks, callerErr,
                 offsets, workerCount, spawned, collected, firstErr, ret,
                 workers, dpc, jobsNext, jobsClosed, resultsClosed, fetchCalls,
                 errOffsets, recvCount>>

(***************************************************************************)
(***************************************************************************)
(* Part II: the session manager spotifyAuthManager.                        *)
(***************************************************************************)
(***************************************************************************)
\* bounds
MaxLogins == 2
MaxCallbacks == 2
MaxNow == 1
\* calls of status, logout and the library operations
MaxOps == 2
\* calls, login attempts, callback requests and clock ticks together
MaxEvents == 5

\* time.Now().Unix()+30 < m.tokens.ExpiresAt
freshMargin == 30
\* defaultCallbackHost = "127.0.0.1:3000"
defaultCallbackPort == 3000
\* a port the system picks for "127.0.0.1:0"
EphemeralPort == defaultCallbackPort + 1

(***************************************************************************)
(* Values.                                                                 *)
(***************************************************************************)
Accounts == {"A", "B"}
\* the user who grants the k-th login attempt: the accounts alternate
AccountOfAttempt(k) == IF k % 2 = 1 THEN "A" ELSE "B"
AccessOf(a) == IF a = "A" THEN "access-A" ELSE "access-B"
RefreshOf(a) == IF a = "A" THEN "refresh-A" ELSE "refresh-B"
AccountOfAccess(tok) == IF tok = "access-A" THEN "A" ELSE "B"
AccountOfRefresh(rt) == IF rt = "refresh-A" THEN "A" ELSE "B"

\* expires_in values of the provider's token responses
ExpiresIns == {freshMargin, freshMargin + 1}

\* spotifyTokenStore and *spotifyTokenStore
ZeroTokens == [AccessToken |-> "", RefreshToken |-> "", ExpiresAt |-> 0,
               Scope |-> "", TokenType |-> ""]
NilTokens == [present |-> FALSE, t |-> ZeroTokens]
TokensPtr(t) == [present |-> TRUE, t |-> t]

\* *spotifyUserProfile
NilProfile == [present |-> FALSE, ID |-> "", DisplayName |-> ""]
ProfileOf(a) == [present |-> TRUE, ID |-> a, DisplayName |-> a]

\* the JSON object of the token endpoint, decoded into tokenResp
TokenResponses(acct) ==
  { [access_token |-> a, expires_in |-> e, refresh_token |-> r,
     scope |-> "user-library-read", token_type |-> "Bearer"] :
       a \in {"", AccessOf(acct)}, e \in ExpiresIns, r \in {"", RefreshOf(acct)} }

\* return &spotifyTokenStore{...} of exchangeCodeForToken
TokenFromResponse(tokenResp, t) ==
  [AccessToken |-> tokenResp.access_token,
   RefreshToken |-> tokenResp.refresh_token,
   ExpiresAt |-> t + tokenResp.expires_in,
   Scope |-> tokenResp.scope,
   TokenType |-> tokenResp.token_type]

RefreshDropsToken(tokenResp, refreshToken, t) == TokenFromResponse(tokenResp, t)

\* refreshAccessToken: if tokenResp.RefreshToken == "" { ... = refreshToken }
RefreshedTokens(tokenResp, refreshToken, t) ==
  TokenFromResponse(
    [tokenResp EXCEPT !.refresh_token = IF @ = "" THEN refreshToken ELSE @], t)

MarshalDropsRefreshToken(t) ==
  [access_token |-> t.AccessToken, refresh_token |-> "",
   expires_at |-> t.ExpiresAt, scope |-> t.Scope, token_type |-> t.TokenType]

\* json.MarshalIndent(tokens, "", "  ") with the json tags of the struct
MarshalTokens(t) ==
  [access_token |-> t.AccessToken, refresh_token |-> t.RefreshToken,
   expires_at |-> t.ExpiresAt, scope |-> t.Scope, token_type |-> t.TokenType]

\* json.Unmarshal(data, &tokens)
UnmarshalTokens(d) ==
  [AccessToken |-> d.access_token, RefreshToken |-> d.refresh_token,
   ExpiresAt |-> d.expires_at, Scope |-> d.scope, TokenType |-> d.token_type]

\* the token file: whether it exists, whether json.Unmarshal accepts its
\* text, and the members the text lists
NoFile == [exists |-> FALSE, parses |-> FALSE, data |-> MarshalTokens(ZeroTokens)]
FileOf(t) == [exists |-> TRUE, parses |-> TRUE, data |-> MarshalTokens(t)]

\* a file that os.WriteFile opened with O_TRUNC and did not write to the
\* end: it is empty or holds the beginning of the text, which is no JSON
TruncatedFile ==
  [exists |-> TRUE, parses |-> FALSE, data |-> MarshalTokens(ZeroTokens)]

\* the files a saveTokens(t) that returns an error may leave: the file as
\* it was (spotifyTokenPath, MkdirAll or the open failed), a truncated file
\* (the write failed), or the new text (only the close failed)
FailedSave(d, t) == {d, TruncatedFile, FileOf(t)}

DecisionRefreshesAnyway(t, n) ==
  IF n + freshMargin < t.ExpiresAt THEN "fresh" ELSE "refresh"

DecisionAlwaysRefreshes(t, n) ==
  IF t.RefreshToken = "" THEN "missing refresh token" ELSE "refresh"

\* the history of refreshes: none has returned a record yet, or the last
\* record returned was stale already; and the last record returned had more
\* than 30 s left when it was returned, after so many refresh calls
NoRefresh == [fresh |-> FALSE, calls |-> 0]
RefreshSeen(t, n, calls) ==
  [fresh |-> n + freshMargin < t.ExpiresAt,
   calls |-> IF n + freshMargin < t.ExpiresAt THEN calls ELSE 0]

\* ensureFreshTokenLocked up to the refresh request
EnsureFreshDecision(t, n) ==
  IF n + freshMargin < t.ExpiresAt THEN "fresh"
  ELSE IF t.RefreshToken = "" THEN "missing refresh token"
  ELSE "refresh"

\* make(chan error, 1), and the nil channel
NilChan == [made |-> FALSE, full |-> FALSE, val |-> "nil"]
EmptyChan == [made |-> TRUE, full |-> FALSE, val |-> "nil"]

PushOverwrites(ch, err) ==
  IF ch.made THEN [ch EXCEPT !.full = TRUE, !.val = err] ELSE ch

\* select { case m.loginWait <- err: default: }
pushLoginError(ch, err) ==
  IF ch.made /\ ~ ch.full THEN [ch EXCEPT !.full = TRUE, !.val = err] ELSE ch

\* a GET /callback?state=..&code=.. accepted by server srv
Request(s, st, c) == [srv |-> s, state |-> st, code |-> c]
NoRequest == Request(0, 0, "")

Unlocked == [op |-> "none", pc |-> "none", req |-> NoRequest]

LockNotTaken == TRUE

\* m.mu.Lock(): the caller goes on once no other operation holds m.mu
Lock == mu = Unlocked

\* what the handler wrote to its http.ResponseWriter
NoResponse == [req |-> NoRequest, status |-> 0, outcome |-> "none"]

\* a state value no login attempt of the run ever issued; a value issued by
\* an earlier attempt is compared the same way, m.state never returns to it
ForgedState == MaxLogins + 1

\* handleCallback: the two checks on the query parameters
ValidateWithoutStateCheck(r, mstate) ==
  IF r.state = 0 \/ r.code = "" THEN "missing state or code" ELSE "ok"

ValidateCallback(r, mstate) ==
  IF r.state = 0 \/ r.code = "" THEN "missing state or code"
  ELSE IF r.state # mstate THEN "state mismatch"
  ELSE "ok"

\* the status code of each exit of handleCallback
StatusProfileErrorIgnored(outcome) ==
  IF outcome \in {"missing state or code", "state mismatch"} THEN 400
  ELSE IF outcome \in {"exchange", "persist"} THEN 500
  ELSE 200

ResponseStatus(outcome) ==
  IF outcome \in {"missing state or code", "state mismatch"} THEN 400
  ELSE IF outcome \in {"exchange", "persist", "profile"} THEN 500
  ELSE 200

\* what status, logout or the locked part of a library operation returned:
\* the error, the fields of SpotifyAuthStatus, and the access token a
\* library operation goes on with (token := m.tokens.AccessToken)
NoResult == [op |-> "none", err |-> "nil", Authenticated |-> FALSE,
             UserID |-> "", ExpiresAt |-> 0, token |-> "", proceeds |-> FALSE]
Failed(op, err) == [NoResult EXCEPT !.op = op, !.err = err]

\* the events of a run counted against MaxEvents
Events == attempts + arrived + now + ops

\* the error handed to pushLoginError
LoginErr(outcome) == IF outcome = "ok" THEN "nil" ELSE outcome

(***************************************************************************)
(* Initial state: newSpotifyAuthManager loads the token file, if any.      *)
(***************************************************************************)
InitialFiles ==
  {NoFile, TruncatedFile} \cup
  {FileOf(TokenFromResponse(r, 0)) :
     r \in {x \in TokenResponses("A") : x.access_token # "" /\ x.refresh_token # ""}}

\* _ = m.loadTokensFromDisk(): the error is ignored, so a file that could not
\* be read or parsed leaves m.tokens nil
ManagerStart ==
  /\ tokens \in {IF disk.parses THEN TokensPtr(UnmarshalTokens(disk.data))
                                 ELSE NilTokens,
                 NilTokens}
  /\ profile = NilProfile
  /\ verifier = 0
  /\ state = 0
  /\ redirect = 0
  /\ server = 0
  /\ loginWait = NilChan
  /\ mu = Unlocked
  /\ now = 0
  /\ listening = {}
  /\ attempts = 0
  /\ pending = EmptyBag
  /\ arrived = 0
  /\ resp = NoResponse
  /\ exchangeCalls = 0
  /\ ops = 0
  /\ result = NoResult
  /\ refreshCalls = 0
  /\ freshAt = NoRefresh
  /\ watching = {}
  /\ ctxFired = {}
  /\ starting = {}
  /\ shutEarly = {}
  /\ portHolder = 0

\* the manager while only a library call is looked at
AuthIdle ==
  /\ disk = NoFile
  /\ ManagerStart

AuthInit ==
  /\ disk \in InitialFiles
  /\ ManagerStart

\* no library call in progress
FetchIdle ==
  /\ caller = "saved"
  /\ total = 0
  /\ firstLen = 0
  /\ nulls = {}
  /\ ctxDone = FALSE
  /\ pc = "done"
  /\ tracks = NilSlice
  /\ offsets = <<>>
  /\ CoordinatorStart

(***************************************************************************)
(* startLogin, under m.mu from the first to the last line.                 *)
(***************************************************************************)
\* Close() of an http.Server closes the listeners that Serve has registered
\* with the server. The listener of startLogin is registered when the
\* goroutine "go srv.Serve(ln)" runs: a Close() that comes before finds no
\* listener and leaves the socket open; Serve then finds the server shut
\* down and closes the listener itself. Server 0 is the nil m.server.
AfterClose(s, open, unserved) == IF s \in unserved THEN open ELSE open \ {s}

\* the servers shut down before their Serve ran, after Close() on server s
ShutAfterClose(s, shut, unserved) ==
  IF s \in unserved THEN shut \cup {s} ELSE shut

\* the holder of port 3000 once the listeners in open are the open ones
Holder(open, h) == IF h \in open THEN h ELSE 0

\* _ = srv.Close() as a step of its own
ServerClose(s) ==
  /\ listening' = AfterClose(s, listening, starting)
  /\ shutEarly' = ShutAfterClose(s, shutEarly, starting)
  /\ portHolder' = Holder(listening', portHolder)
  /\ starting' = starting

\* net.Listen("tcp", defaultCallbackHost) fails while another listener
\* holds the port: one of the manager's own, or one of another process;
\* net.Listen("tcp", "127.0.0.1:0") is tried then
ListenPorts(open, h) ==
  IF Holder(open, h) = 0 THEN {defaultCallbackPort, EphemeralPort}
  ELSE {EphemeralPort}

StartLoginResetsSession ==
  /\ Lock
  /\ attempts < MaxLogins
  /\ Events < MaxEvents
  /\ attempts' = attempts + 1
  /\ LET k == attempts + 1
         open == AfterClose(server, listening, starting)
     IN /\ shutEarly' = ShutAfterClose(server, shutEarly, starting)
        /\ \/ /\ server' = 0
              /\ listening' = open
              /\ watching' = {}
              /\ starting' = starting
              /\ portHolder' = Holder(open, portHolder)
              /\ UNCHANGED <<redirect, verifier, state, loginWait>>
           \/ \E port \in ListenPorts(open, portHolder) :
                /\ redirect' = port
                /\ verifier' = k
                /\ state' = k
                /\ server' = k
                /\ loginWait' = EmptyChan
                /\ listening' = open \cup {k}
                /\ watching' = {k}
                /\ starting' = starting \cup {k}
                /\ portHolder' = IF port = defaultCallbackPort THEN k
                                 ELSE Holder(open, portHolder)
  /\ ctxFired' = {}
  /\ tokens' = NilTokens
  /\ profile' = NilProfile
  /\ UNCHANGED <<mu, disk, now, pending, arrived, resp, exchangeCalls>>
  /\ UNCHANGED opVars
  /\ UNCHANGED fetchVars
  /\ UNCHANGED freshAt

\* generateCodeVerifier and randomString fail only when crypto/rand.Read
\* fails, which it does not; the listener may fail to open on both ports.
\* The two goroutines are started and startLogin returns without waiting
\* for either.
StartLogin ==
  /\ Lock
  /\ attempts < MaxLogins
  /\ Events < MaxEvents
  /\ attempts' = attempts + 1
  /\ LET k == attempts + 1
         open == AfterClose(server, listening, starting)
     IN /\ shutEarly' = ShutAfterClose(server, shutEarly, starting)
        /\ \/ \* both net.Listen calls fail
              /\ server' = 0
              /\ listening' = open
              /\ watching' = {}
              /\ starting' = starting
              /\ portHolder' = Holder(open, portHolder)
              /\ UNCHANGED <<redirect, verifier, state, loginWait>>
           \/ \E port \in ListenPorts(open, portHolder) :
                /\ redirect' = port
                /\ verifier' = k
                /\ state' = k
                /\ server' = k
                /\ loginWait' = EmptyChan
                /\ listening' = open \cup {k}
                /\ watching' = {k}
                /\ starting' = starting \cup {k}
                /\ portHolder' = IF port = defaultCallbackPort THEN k
                                 ELSE Holder(open, portHolder)
  /\ ctxFired' = {}
  /\ UNCHANGED <<tokens, profile, mu, disk, now, pending, arrived, resp,
                 exchangeCalls>>
  /\ UNCHANGED opVars
  /\ UNCHANGED fetchVars
  /\ UNCHANGED freshAt

\* the goroutine "go func() { _ = srv.Serve(ln) }()" of server k runs:
\* Serve registers the listener and accepts requests from then on, or, when
\* the server was shut down meanwhile, returns ErrServerClosed and closes
\* the listener on its way out
Serve(k) ==
  /\ k \in starting
  /\ starting' = starting \ {k}
  /\ shutEarly' = shutEarly \ {k}
  /\ listening' = IF k \in shutEarly THEN listening \ {k} ELSE listening
  /\ portHolder' = Holder(listening', portHolder)
  /\ UNCHANGED <<tokens, profile, verifier, state, redirect, server, loginWait,
                 mu, disk, now, attempts, pending, arrived, resp,
                 exchangeCalls, opVars, watchVars>>
  /\ UNCHANGED fetchVars
  /\ UNCHANGED freshAt

(***************************************************************************)
(* The browser (or anyone else) sends GET /callback to a server that is    *)
(* serving; net/http starts a goroutine running handleCallback, which      *)
(* first waits for m.mu.                                                   *)
(***************************************************************************)
CallbackArrive ==
  /\ arrived < MaxCallbacks
  /\ Events < MaxEvents
  /\ arrived' = arrived + 1
  /\ \E s \in listening \ starting, st \in {0, state, ForgedState}, c \in {"", "code"} :
        pending' = pending (+) SetToBag({Request(s, st, c)})
  /\ UNCHANGED <<tokens, profile, verifier, state, redirect, server, loginWait,
                 mu, disk, now, listening, attempts, resp, exchangeCalls>>
  /\ UNCHANGED <<opVars, watchVars>>
  /\ UNCHANGED fetchVars
  /\ UNCHANGED serveVars
  /\ UNCHANGED freshAt

(***************************************************************************)
(* handleCallback. The handler holds m.mu from its first line; its three   *)
(* requests to the provider are made with the lock held.                   *)
(***************************************************************************)
\* an exit of the handler: the response, pushLoginError, then the deferred
\* server close and unlock
FinishCallback(r, outcome) ==
  /\ resp' = [req |-> r, status |-> ResponseStatus(outcome), outcome |-> outcome]
  /\ loginWait' = pushLoginError(loginWait, LoginErr(outcome))
  /\ ServerClose(server)
  /\ server' = 0
  /\ watching' = {}
  /\ ctxFired' = {}
  /\ mu' = Unlocked

\* lock, read the query, validate it; a valid request goes on to
\* exchangeCodeForToken
CallbackBegin(r) ==
  /\ Lock
  /\ pending' = pending (-) SetToBag({r})
  /\ IF ValidateCallback(r, state) # "ok"
     THEN /\ FinishCallback(r, ValidateCallback(r, state))
          /\ UNCHANGED exchangeCalls
     ELSE /\ mu' = [op |-> "callback", pc |-> "exchange", req |-> r]
          /\ exchangeCalls' = exchangeCalls + 1
          /\ UNCHANGED <<watchVars, resp, loginWait, listening, server,
                         serveVars>>
  /\ UNCHANGED <<tokens, profile, verifier, state, redirect, disk, now, attempts,
                 arrived>>
  /\ UNCHANGED opVars
  /\ UNCHANGED fetchVars
  /\ UNCHANGED freshAt

\* exchangeCodeForToken returns; saveTokens
CallbackExchange ==
  /\ mu.op = "callback"
  /\ mu.pc = "exchange"
  /\ \/ /\ FinishCallback(mu.req, "exchange")
        /\ UNCHANGED <<tokens, disk, refreshCalls>>
     \/ \E tr \in TokenResponses(AccountOfAttempt(mu.req.state)) :
          LET t == TokenFromResponse(tr, now)
          IN /\ tokens' = TokensPtr(t)
             /\ \/ \* saveTokens fails after m.tokens was assigned
                   /\ FinishCallback(mu.req, "persist")
                   /\ disk' \in FailedSave(disk, t)
                   /\ UNCHANGED refreshCalls
                \/ /\ disk' = FileOf(t)
                   /\ mu' = [mu EXCEPT !.pc = "check"]
                   /\ UNCHANGED <<watchVars, resp, loginWait, listening, server,
                                  refreshCalls, serveVars>>
  /\ UNCHANGED <<profile, verifier, state, redirect, now, attempts, pending,
                 arrived, exchangeCalls>>
  /\ UNCHANGED <<ops, result>>
  /\ UNCHANGED fetchVars
  /\ UNCHANGED freshAt

\* fetchProfileLocked as called by handleCallback, up to its first request:
\* ensureFreshTokenLocked on its own reading of the clock
CallbackCheck ==
  /\ mu.op = "callback"
  /\ mu.pc = "check"
  /\ IF EnsureFreshDecision(tokens.t, now) = "fresh"
     THEN /\ mu' = [mu EXCEPT !.pc = "profile"]
          /\ UNCHANGED <<watchVars, resp, loginWait, listening, server,
                         refreshCalls, serveVars>>
     ELSE IF EnsureFreshDecision(tokens.t, now) = "refresh"
     THEN /\ mu' = [mu EXCEPT !.pc = "refresh"]
          /\ refreshCalls' = refreshCalls + 1
          /\ UNCHANGED <<watchVars, resp, loginWait, listening, server,
                         serveVars>>
     ELSE /\ FinishCallback(mu.req, "profile")
          /\ UNCHANGED refreshCalls
  /\ UNCHANGED <<tokens, profile, verifier, state, redirect, disk, now,
                 attempts, pending, arrived, exchangeCalls>>
  /\ UNCHANGED <<ops, result>>
  /\ UNCHANGED fetchVars
  /\ UNCHANGED freshAt

\* refreshAccessToken returns inside ensureFreshTokenLocked; saveTokens
CallbackRefresh ==
  /\ mu.op = "callback"
  /\ mu.pc = "refresh"
  /\ \/ /\ FinishCallback(mu.req, "profile")
        /\ UNCHANGED <<tokens, disk, freshAt>>
     \/ \E tr \in TokenResponses(AccountOfRefresh(tokens.t.RefreshToken)) :
          LET t == RefreshedTokens(tr, tokens.t.RefreshToken, now)
          IN /\ tokens' = TokensPtr(t)
             /\ freshAt' = RefreshSeen(t, now, refreshCalls)
             /\ \/ \* saveTokens fails after m.tokens was assigned
                   /\ FinishCallback(mu.req, "profile")
                   /\ disk' \in FailedSave(disk, t)
                \/ /\ disk' = FileOf(t)
                   /\ mu' = [mu EXCEPT !.pc = "profile"]
                   /\ UNCHANGED <<watchVars, resp, loginWait, listening, server,
                         serveVars>>
  /\ UNCHANGED <<profile, verifier, state, redirect, now, attempts, pending,
                 arrived, exchangeCalls>>
  /\ UNCHANGED opVars
  /\ UNCHANGED fetchVars

\* client.getJSON(ctx, spotifyMeURL, ...) returns; m.profile = profile
CallbackProfile ==
  /\ mu.op = "callback"
  /\ mu.pc = "profile"
  /\ \/ /\ FinishCallback(mu.req, "profile")
        /\ UNCHANGED profile
     \/ /\ tokens.t.AccessToken # ""
        /\ profile' = ProfileOf(AccountOfAccess(tokens.t.AccessToken))
        /\ FinishCallback(mu.req, "ok")
  /\ UNCHANGED <<tokens, verifier, state, redirect, disk, now, attempts,
                 pending, arrived, exchangeCalls>>
  /\ UNCHANGED opVars
  /\ UNCHANGED fetchVars
  /\ UNCHANGED freshAt

(***************************************************************************)
(* The watcher goroutine of startLogin: <-ctx.Done(); srv.Close(). It      *)
(* closes the server it was started for and does not take m.mu.            *)
(***************************************************************************)
\* the context passed to the startLogin call that made server k is done.
\* Only the watcher of a server that is still open is followed: startLogin
\* and handleCallback drop the watcher of the server they close from
\* watching and ctxFired, since its srv.Close() changes nothing any more.
FireCtx(k) ==
  /\ k \in watching
  /\ watching' = watching \ {k}
  /\ ctxFired' = ctxFired \cup {k}
  /\ UNCHANGED <<tokens, profile, verifier, state, redirect, server, loginWait,
                 mu, disk, now, listening, attempts, pending, arrived, resp,
                 exchangeCalls, opVars>>
  /\ UNCHANGED fetchVars
  /\ UNCHANGED serveVars
  /\ UNCHANGED freshAt

WatcherReturns(k) ==
  /\ k \in ctxFired
  /\ ctxFired' = ctxFired \ {k}
  /\ UNCHANGED <<tokens, profile, verifier, state, redirect, server, loginWait,
                 mu, disk, now, attempts, pending, arrived, resp,
                 exchangeCalls, opVars, watching, listening, serveVars>>
  /\ UNCHANGED fetchVars
  /\ UNCHANGED freshAt

\* _ = srv.Close()
WatcherClose(k) ==
  /\ k \in ctxFired
  /\ ctxFired' = ctxFired \ {k}
  /\ ServerClose(k)
  /\ UNCHANGED <<tokens, profile, verifier, state, redirect, server, loginWait,
                 mu, disk, now, attempts, pending, arrived, resp,
                 exchangeCalls, opVars, watching>>
  /\ UNCHANGED fetchVars
  /\ UNCHANGED freshAt

(***************************************************************************)
(* logout, status and the locked part of the library operations.           *)
(***************************************************************************)
ReturnHoldingLock(r) ==
  /\ result' = r
  /\ mu' = [op |-> r.op, pc |-> "fetch", req |-> NoRequest]

\* the return of a call and its deferred m.mu.Unlock()
Return(r) ==
  /\ result' = r
  /\ mu' = Unlocked

InOp(op, at) == [op |-> op, pc |-> at, req |-> NoRequest]

\* if err == nil { _ = os.Remove(tokenPath) }: the files that may be left.
\* The removal is skipped when spotifyTokenPath fails and its own error is
\* discarded, so an existing file may stay.
RemoveFile(d) == {NoFile, d}

logout ==
  /\ Lock
  /\ ops < MaxOps
  /\ Events < MaxEvents
  /\ ops' = ops + 1
  /\ tokens' = NilTokens
  /\ profile' = NilProfile
  /\ disk' \in RemoveFile(disk)
  /\ result' = Failed("logout", "nil")
  /\ UNCHANGED <<verifier, state, redirect, server, loginWait, mu, now,
                 listening, attempts, pending, arrived, resp, exchangeCalls,
                 refreshCalls, watchVars>>
  /\ UNCHANGED fetchVars
  /\ UNCHANGED serveVars
  /\ UNCHANGED freshAt

AlwaysLoaded(tk, d) ==
  IF d.parses THEN TokensPtr(UnmarshalTokens(d.data)) ELSE tk

\* m.tokens after "if m.tokens == nil { loadTokensFromDisk() }" when the load
\* succeeds or finds no file
LoadedTokens(tk, d) ==
  IF tk.present THEN tk
  ELSE IF d.parses THEN TokensPtr(UnmarshalTokens(d.data))
  ELSE NilTokens

\* return SpotifyAuthStatus{Authenticated: true, ...}, nil
StatusOf(prof, t) ==
  [NoResult EXCEPT !.op = "status", !.Authenticated = TRUE,
                   !.UserID = prof.ID, !.ExpiresAt = t.ExpiresAt]

\* status after its own freshness check passed: the cached profile, or the
\* call of fetchProfileLocked, whose freshness check reads the clock anew
StatusAfterFresh(tk) ==
  IF profile.present
  THEN /\ Return(StatusOf(profile, tk.t))
       /\ UNCHANGED refreshCalls
  ELSE /\ mu' = InOp("status", "check2")
       /\ UNCHANGED <<result, refreshCalls>>

\* the call up to its first request to the provider, or to its return
statusBegin ==
  /\ Lock
  /\ ops < MaxOps
  /\ Events < MaxEvents
  /\ ops' = ops + 1
  /\ \/ \* loadTokensFromDisk fails with an error that is not ErrNotExist
        /\ ~ tokens.present
        /\ tokens' = tokens
        /\ Return(Failed("status", "load failed"))
        /\ UNCHANGED refreshCalls
     \/ LET tk == LoadedTokens(tokens, disk)
        IN /\ tokens.present \/ ~ disk.exists \/ disk.parses
           /\ tokens' = tk
           /\ IF ~ tk.present
              THEN /\ Return(Failed("status", "nil"))
                   /\ UNCHANGED refreshCalls
              ELSE IF EnsureFreshDecision(tk.t, now) = "fresh"
              THEN StatusAfterFresh(tk)
              ELSE IF EnsureFreshDecision(tk.t, now) = "refresh"
              THEN /\ mu' = InOp("status", "refresh")
                   /\ refreshCalls' = refreshCalls + 1
                   /\ UNCHANGED result
              ELSE /\ Return(Failed("status", "missing refresh token"))
                   /\ UNCHANGED refreshCalls
  /\ UNCHANGED <<profile, verifier, state, redirect, server, loginWait, disk,
                 now, listening, attempts, pending, arrived, resp,
                 exchangeCalls, watchVars>>
  /\ UNCHANGED fetchVars
  /\ UNCHANGED serveVars
  /\ UNCHANGED freshAt

\* fetchUserPlaylists, fetchUserSavedTracks, fetchPlaylistWithTracks
LibraryOps == {"playlists", "saved", "playlist"}

\* token := m.tokens.AccessToken; m.mu.Unlock(): the operation goes on to
\* its catalog requests outside the lock
Proceeds(op, t) == [NoResult EXCEPT !.op = op, !.token = t.AccessToken,
                                    !.proceeds = TRUE]

libraryBeginUnchecked(op) ==
  /\ Lock
  /\ ops < MaxOps
  /\ Events < MaxEvents
  /\ ops' = ops + 1
  /\ IF ~ tokens.present
     THEN Return(Failed(op, "not authenticated"))
     ELSE Return(Proceeds(op, tokens.t))
  /\ UNCHANGED <<tokens, profile, verifier, state, redirect, server, loginWait,
                 disk, now, listening, attempts, pending, arrived, resp,
                 exchangeCalls, refreshCalls, watchVars>>
  /\ UNCHANGED fetchVars
  /\ UNCHANGED serveVars
  /\ UNCHANGED freshAt

\* the locked part of a library operation up to its refresh request, or to
\* the unlock
libraryBegin(op) ==
  /\ Lock
  /\ ops < MaxOps
  /\ Events < MaxEvents
  /\ ops' = ops + 1
  /\ IF ~ tokens.present
     THEN /\ Return(Failed(op, "not authenticated"))
          /\ UNCHANGED refreshCalls
     ELSE IF EnsureFreshDecision(tokens.t, now) = "fresh"
     THEN /\ Return(Proceeds(op, tokens.t))
          /\ UNCHANGED refreshCalls
     ELSE IF EnsureFreshDecision(tokens.t, now) = "refresh"
     THEN /\ mu' = InOp(op, "refresh")
          /\ refreshCalls' = refreshCalls + 1
          /\ UNCHANGED result
     ELSE /\ Return(Failed(op, "missing refresh token"))
          /\ UNCHANGED refreshCalls
  /\ UNCHANGED <<tokens, profile, verifier, state, redirect, server, loginWait,
                 disk, now, listening, attempts, pending, arrived, resp,
                 exchangeCalls, watchVars>>
  /\ UNCHANGED fetchVars
  /\ UNCHANGED serveVars
  /\ UNCHANGED freshAt

\* refreshAccessToken returns inside the ensureFreshTokenLocked of status,
\* of its fetchProfileLocked, or of a library operation; saveTokens
opRefresh ==
  /\ mu.op \in LibraryOps \cup {"status"}
  /\ mu.pc \in {"refresh", "refresh2"}
  /\ \/ /\ Return(Failed(mu.op, "refresh failed"))
        /\ UNCHANGED <<tokens, disk, refreshCalls, freshAt>>
     \/ \E tr \in TokenResponses(AccountOfRefresh(tokens.t.RefreshToken)) :
          LET t == RefreshedTokens(tr, tokens.t.RefreshToken, now)
          IN /\ tokens' = TokensPtr(t)
             /\ freshAt' = RefreshSeen(t, now, refreshCalls)
             /\ \/ \* saveTokens fails after m.tokens was assigned
                   /\ Return(Failed(mu.op, "persist"))
                   /\ disk' \in FailedSave(disk, t)
                   /\ UNCHANGED refreshCalls
                \/ /\ disk' = FileOf(t)
                   /\ IF mu.op \in LibraryOps
                      THEN /\ Return(Proceeds(mu.op, t))
                           /\ UNCHANGED refreshCalls
                      ELSE IF mu.pc = "refresh"
                      THEN StatusAfterFresh(TokensPtr(t))
                      ELSE /\ mu' = InOp("status", "profile")
                           /\ UNCHANGED <<result, refreshCalls>>
  /\ UNCHANGED <<profile, verifier, state, redirect, server, loginWait, now,
                 listening, attempts, pending, arrived, resp, exchangeCalls,
                 ops, watchVars>>
  /\ UNCHANGED fetchVars
  /\ UNCHANGED serveVars

\* fetchProfileLocked as called by status, up to its request: the second
\* ensureFreshTokenLocked of the call, on its own reading of the clock
fetchProfileLocked ==
  /\ mu.op = "status"
  /\ mu.pc = "check2"
  /\ IF EnsureFreshDecision(tokens.t, now) = "fresh"
     THEN /\ mu' = InOp("status", "profile")
          /\ UNCHANGED <<result, refreshCalls>>
     ELSE IF EnsureFreshDecision(tokens.t, now) = "refresh"
     THEN /\ mu' = InOp("status", "refresh2")
          /\ refreshCalls' = refreshCalls + 1
          /\ UNCHANGED result
     ELSE /\ Return(Failed("status", "missing refresh token"))
          /\ UNCHANGED refreshCalls
  /\ UNCHANGED <<tokens, profile, verifier, state, redirect, server, loginWait,
                 disk, now, listening, attempts, pending, arrived, resp,
                 exchangeCalls, ops, watchVars>>
  /\ UNCHANGED fetchVars
  /\ UNCHANGED serveVars
  /\ UNCHANGED freshAt

\* client.getJSON(ctx, spotifyMeURL, ...) returns in the fetchProfileLocked
\* of status; m.profile = prof
statusProfile ==
  /\ mu.op = "status"
  /\ mu.pc = "profile"
  /\ \/ /\ Return(Failed("status", "profile"))
        /\ UNCHANGED profile
     \/ /\ tokens.t.AccessToken # ""
        /\ profile' = ProfileOf(AccountOfAccess(tokens.t.AccessToken))
        /\ Return(StatusOf(profile', tokens.t))
  /\ UNCHANGED <<tokens, verifier, state, redirect, server, loginWait, disk,
                 now, listening, attempts, pending, arrived, resp,
                 exchangeCalls, ops, refreshCalls, watchVars>>
  /\ UNCHANGED fetchVars
  /\ UNCHANGED serveVars
  /\ UNCHANGED freshAt

\* the clock
Tick ==
  /\ now < MaxNow
  /\ Events < MaxEvents
  /\ now' = now + 1
  /\ UNCHANGED <<tokens, profile, verifier, state, redirect, server, loginWait,
                 mu, disk, listening, attempts, pending, arrived, resp,
                 exchangeCalls>>
  /\ UNCHANGED <<opVars, watchVars>>
  /\ UNCHANGED fetchVars
  /\ UNCHANGED serveVars
  /\ UNCHANGED freshAt

\* the events of a run in which all goroutines of the manager take part
ManagerBudget == MaxEvents - 1

WithinBudget == Events' <= ManagerBudget

AuthNext ==
  \/ StartLogin /\ WithinBudget
  \/ CallbackArrive /\ WithinBudget
  \/ \E r \in BagToSet(pending) : CallbackBegin(r)
  \/ CallbackExchange
  \/ CallbackCheck
  \/ CallbackRefresh
  \/ CallbackProfile
  \/ \E k \in watching : FireCtx(k)
  \/ \E k \in ctxFired : WatcherClose(k)
  \/ \E k \in starting : Serve(k)
  \/ logout /\ WithinBudget

AuthSpecInit == AuthInit /\ FetchIdle

AuthSpec == AuthSpecInit /\ [][AuthNext]_vars

\* status, logout and the library operations on a manager constructed over
\* any token file, with no login attempt in progress
SessionNext ==
  \/ statusBegin
  \/ \E op \in LibraryOps : libraryBegin(op)
  \/ opRefresh
  \/ fetchProfileLocked
  \/ statusProfile
  \/ logout
  \/ Tick

\* token files left by an earlier run, also of a login that got no refresh
\* token
SessionFiles ==
  InitialFiles \cup
  {FileOf(TokenFromResponse(r, 0)) :
     r \in {x \in TokenResponses("A") : x.access_token # ""}}

SessionInit ==
  /\ disk \in SessionFiles
  /\ ManagerStart
  /\ FetchIdle

SessionSpec == SessionInit /\ [][SessionNext]_vars


(***************************************************************************)
(* Specifications.                                                         *)
(***************************************************************************)
\* the login flow with the two goroutines of startLogin scheduled: the
\* watcher, once its ctx is done, and the goroutine that runs Serve are not
\* kept from running forever
WatcherFairness ==
  \A k \in 1..MaxLogins : WF_vars(WatcherClose(k)) /\ WF_vars(Serve(k))

\* the events of a run in which the goroutines of startLogin are scheduled
WatchBudget == MaxEvents - 2

WithinWatchBudget == Events' <= WatchBudget

WatchNext ==
  \/ StartLogin /\ WithinWatchBudget
  \/ CallbackArrive /\ WithinWatchBudget
  \/ \E r \in BagToSet(pending) : CallbackBegin(r)
  \/ CallbackExchange
  \/ CallbackCheck
  \/ CallbackRefresh
  \/ CallbackProfile
  \/ \E k \in watching : FireCtx(k)
  \/ \E k \in ctxFired : WatcherClose(k)
  \/ \E k \in starting : Serve(k)
  \/ logout /\ WithinWatchBudget

AuthLiveSpec == AuthSpecInit /\ [][WatchNext]_vars /\ WatcherFairness

(***************************************************************************)
(* The token store alone: saveTokens and loadTokensFromDisk called on      *)
(* records of every shape the provider's responses produce.                *)
(*                                                                         *)
(* Here the token file is its text and a Go string is its characters: a    *)
(* sequence of code points, with InvalidByte for a byte that is not part   *)
(* of a valid UTF-8 encoding. The other specifications keep the file as    *)
(* the members MarshalTokens lists.                                        *)
(***************************************************************************)
\* the code of a printable ASCII character, from code 32 on ("grave" holds
\* the place of the grave accent)
Code(c) ==
  LET Ascii ==
        << " ", "!", "\"", "#", "$", "%", "&", "'", "(", ")", "*", "+", ",",
           "-", ".", "/", "0", "1", "2", "3", "4", "5", "6", "7", "8", "9",
           ":", ";", "<", "=", ">", "?", "@", "A", "B", "C", "D", "E", "F",
           "G", "H", "I", "J", "K", "L", "M", "N", "O", "P", "Q", "R", "S",
           "T", "U", "V", "W", "X", "Y", "Z", "[", "\\", "]", "^", "_",
           "grave", "a", "b", "c", "d", "e", "f", "g", "h", "i", "j", "k",
           "l", "m", "n", "o", "p", "q", "r", "s", "t", "u", "v", "w", "x",
           "y", "z", "{", "|", "}", "~" >>
  IN 31 + (CHOOSE k \in DOMAIN Ascii : Ascii[k] = c)

\* the code points of a text written character by character
RECURSIVE Text(_)
Text(str) ==
  IF str = <<>> THEN <<>> ELSE <<Code(Head(str))>> \o Text(Tail(str))

InvalidByte == -1
\* unicode.ReplacementChar, U+FFFD
ReplacementChar == 65533

\* the characters encoding/json writes and looks for
Char ==
  [backspace |-> 8, tab |-> 9, lf |-> 10, ff |-> 12, cr |-> 13, space |-> 32,
   quote |-> 34, backslash |-> 92, minus |-> 45, plus |-> 43,
   dot |-> 46, colon |-> 58, comma |-> 44,
   lbrace |-> 123, rbrace |-> 125, lbracket |-> 91,
   rbracket |-> 93, slash |-> 47, b |-> 98,
   f |-> 102, n |-> 110, r |-> 114, t |-> 116,
   u |-> 117, e |-> 101, E |-> 69, lt |-> 60,
   gt |-> 62, amp |-> 38, S |-> 83, K |-> 75]

\* the literal names of JSON and the digits of the escape of U+FFFD
Literal ==
  [true |-> Text(<<"t", "r", "u", "e">>),
   false |-> Text(<<"f", "a", "l", "s", "e">>),
   null |-> Text(<<"n", "u", "l", "l">>),
   fffd |-> Text(<<"f", "f", "f", "d">>)]

\* the json tags of spotifyTokenStore
Tag ==
  [AccessToken |->
     Text(<<"a", "c", "c", "e", "s", "s", "_", "t", "o", "k", "e", "n">>),
   RefreshToken |->
     Text(<<"r", "e", "f", "r", "e", "s", "h", "_", "t", "o", "k", "e", "n">>),
   ExpiresAt |-> Text(<<"e", "x", "p", "i", "r", "e", "s", "_", "a", "t">>),
   Scope |-> Text(<<"s", "c", "o", "p", "e">>),
   TokenType |-> Text(<<"t", "o", "k", "e", "n", "_", "t", "y", "p", "e">>)]

\* the lower-case hexadecimal digit of a value below 16
HexDigit(v) == IF v < 10 THEN 48 + v ELSE 87 + v

\* the value of a hexadecimal digit of either case, -1 for another character
HexValue(c) ==
  IF c >= 48 /\ c <= 57 THEN c - 48
  ELSE IF c >= 97 /\ c <= 102 THEN c - 87
  ELSE IF c >= 65 /\ c <= 70 THEN c - 55
  ELSE -1

IsDigit(c) == c >= 48 /\ c <= 57

RECURSIVE FormatDigits(_)
FormatDigits(n) ==
  IF n < 10 THEN <<48 + n>>
  ELSE Append(FormatDigits(n \div 10), 48 + (n % 10))

\* strconv.AppendInt(b, v, 10), which encoding/json uses for an int64 field
FormatInt(v) ==
  IF v < 0 THEN <<Char.minus>> \o FormatDigits(0 - v) ELSE FormatDigits(v)

EscapeNothing(c) == <<c>>

\* one character of a string as encoding/json writes it, HTML characters
\* escaped: the quote and the backslash get a backslash; backspace, form
\* feed, line feed, carriage return and tab their letter; the other
\* control characters and < > & are written as a backslash, u, 00 and two
\* hexadecimal digits; U+2028 and U+2029 likewise with their four digits; a
\* byte that is not valid UTF-8 is written as the escape of U+FFFD; every
\* other character is copied
EscapeChar(c) ==
  IF c = Char.quote \/ c = Char.backslash THEN <<Char.backslash, c>>
  ELSE IF c = Char.backspace THEN <<Char.backslash, Char.b>>
  ELSE IF c = Char.ff THEN <<Char.backslash, Char.f>>
  ELSE IF c = Char.lf THEN <<Char.backslash, Char.n>>
  ELSE IF c = Char.cr THEN <<Char.backslash, Char.r>>
  ELSE IF c = Char.tab THEN <<Char.backslash, Char.t>>
  ELSE IF (c >= 0 /\ c < Char.space) \/ c \in {Char.lt, Char.gt, Char.amp}
  THEN <<Char.backslash, Char.u, 48, 48, HexDigit(c \div 16), HexDigit(c % 16)>>
  ELSE IF c = 8232 \/ c = 8233
  THEN <<Char.backslash, Char.u, 50, 48, 50, HexDigit(c % 16)>>
  ELSE IF c = InvalidByte
  THEN <<Char.backslash, Char.u>> \o Literal.fffd
  ELSE <<c>>

RECURSIVE EscapeString(_)
EscapeString(str) ==
  IF str = <<>> THEN <<>> ELSE EscapeChar(Head(str)) \o EscapeString(Tail(str))

\* a string value or a key between its quotes
Quote(str) == <<Char.quote>> \o EscapeString(str) \o <<Char.quote>>

\* one member of the object on its own line, indented by two spaces
Member(key, value, last) ==
  <<Char.lf, Char.space, Char.space>> \o Quote(key) \o <<Char.colon, Char.space>> \o value
     \o (IF last THEN <<>> ELSE <<Char.comma>>)

\* json.MarshalIndent(tokens, "", "  "): the fields in the order of the
\* struct under their json tags; it cannot fail for strings and an int64
MarshalIndent(t) ==
  <<Char.lbrace>>
     \o Member(Tag.AccessToken, Quote(t.AccessToken), FALSE)
     \o Member(Tag.RefreshToken, Quote(t.RefreshToken), FALSE)
     \o Member(Tag.ExpiresAt, FormatInt(t.ExpiresAt), FALSE)
     \o Member(Tag.Scope, Quote(t.Scope), FALSE)
     \o Member(Tag.TokenType, Quote(t.TokenType), TRUE)
     \o <<Char.lf, Char.rbrace>>

\* a scanned JSON value: its kind ("string", "int", "float", "true",
\* "false", "null", "array", "object"), the characters of a string or the
\* struct an object was stored into, the value of an integer, and the
\* position after it; BadScan for text that is not JSON
BadScan == [ok |-> FALSE, kind |-> "none", val |-> <<>>, num |-> 0, next |-> 0]
Scanned(kind, val, num, next) ==
  [ok |-> TRUE, kind |-> kind, val |-> val, num |-> num, next |-> next]

IsSpace(c) == c \in {Char.space, Char.tab, Char.lf, Char.cr}

\* the position of the first character at or after i that is not white space
RECURSIVE SkipSpace(_, _)
SkipSpace(d, i) ==
  IF i <= Len(d) /\ IsSpace(d[i]) THEN SkipSpace(d, i + 1) ELSE i

At(d, i, c) == i <= Len(d) /\ d[i] = c

\* getu4: the number written by the four hexadecimal digits from i on, -1
\* when there are no four
ScanU4(d, i) ==
  IF i + 3 <= Len(d) /\ \A k \in 0..3 : HexValue(d[i + k]) >= 0
  THEN HexValue(d[i]) * 4096 + HexValue(d[i + 1]) * 256
         + HexValue(d[i + 2]) * 16 + HexValue(d[i + 3])
  ELSE -1

\* utf16.DecodeRune: the character a surrogate pair encodes, U+FFFD for
\* two numbers that are no pair
DecodeRune(r1, r2) ==
  IF r1 >= 55296 /\ r1 < 56320 /\ r2 >= 56320 /\ r2 < 57344
  THEN (r1 - 55296) * 1024 + (r2 - 56320) + 65536
  ELSE ReplacementChar

\* the character a one-letter escape stands for, -1 for another letter
Unescaped(e) ==
  IF e \in {Char.quote, Char.backslash, Char.slash} THEN e
  ELSE IF e = Char.b THEN Char.backspace
  ELSE IF e = Char.f THEN Char.ff
  ELSE IF e = Char.n THEN Char.lf
  ELSE IF e = Char.r THEN Char.cr
  ELSE IF e = Char.t THEN Char.tab
  ELSE -1

\* the string literal whose opening quote precedes position i, as
\* encoding/json unquotes it: escapes are undone, a \u escape of half a
\* surrogate pair and a byte that is not valid UTF-8 become U+FFFD; a raw
\* control character and an unknown escape are errors
RECURSIVE ScanString(_, _, _)
ScanString(d, i, acc) ==
  IF i > Len(d) THEN BadScan
  ELSE IF d[i] = Char.quote THEN Scanned("string", acc, 0, i + 1)
  ELSE IF d[i] = Char.backslash
  THEN IF i + 1 > Len(d) THEN BadScan
       ELSE IF Unescaped(d[i + 1]) >= 0
       THEN ScanString(d, i + 2, Append(acc, Unescaped(d[i + 1])))
       ELSE IF d[i + 1] = Char.u /\ ScanU4(d, i + 2) >= 0
       THEN LET rr == ScanU4(d, i + 2)
                rr1 == IF At(d, i + 6, Char.backslash) /\ At(d, i + 7, Char.u)
                       THEN ScanU4(d, i + 8) ELSE -1
            IN IF ~ (rr >= 55296 /\ rr < 57344)
               THEN ScanString(d, i + 6, Append(acc, rr))
               ELSE IF DecodeRune(rr, rr1) # ReplacementChar
               THEN ScanString(d, i + 12, Append(acc, DecodeRune(rr, rr1)))
               ELSE ScanString(d, i + 6, Append(acc, ReplacementChar))
       ELSE BadScan
  ELSE IF d[i] >= 0 /\ d[i] < Char.space THEN BadScan
  ELSE IF d[i] = InvalidByte
  THEN ScanString(d, i + 1, Append(acc, ReplacementChar))
  ELSE ScanString(d, i + 1, Append(acc, d[i]))

\* the digits from position i on: their value and the position after them
RECURSIVE ScanDigits(_, _, _)
ScanDigits(d, i, acc) ==
  IF i <= Len(d) /\ IsDigit(d[i])
  THEN ScanDigits(d, i + 1, acc * 10 + (d[i] - 48))
  ELSE [val |-> acc, next |-> i]

\* a number at position i: an optional minus sign, 0 or digits that do not
\* start with 0, then an optional fraction and an optional exponent; with
\* either of the two the number is no integer literal
ScanNumber(d, i) ==
  LET neg == At(d, i, Char.minus)
      from == IF neg THEN i + 1 ELSE i
      int == IF At(d, from, 48) THEN [val |-> 0, next |-> from + 1]
             ELSE ScanDigits(d, from, 0)
      frac == IF At(d, int.next, Char.dot)
              THEN ScanDigits(d, int.next + 1, 0).next ELSE int.next
      sign == IF At(d, frac, Char.e) \/ At(d, frac, Char.E)
              THEN IF At(d, frac + 1, Char.plus) \/ At(d, frac + 1, Char.minus)
                   THEN frac + 2 ELSE frac + 1
              ELSE frac
      exp == IF sign > frac THEN ScanDigits(d, sign, 0).next ELSE frac
  IN IF int.next = from THEN BadScan
     ELSE IF frac = int.next + 1 \/ (sign > frac /\ exp = sign) THEN BadScan
     ELSE IF exp > int.next THEN Scanned("float", <<>>, 0, exp)
     ELSE Scanned("int", <<>>, IF neg THEN 0 - int.val ELSE int.val, int.next)

\* the literal name at position i
ScanLiteral(d, i) ==
  LET Word(w) == i + Len(w) - 1 <= Len(d) /\ SubSeq(d, i, i + Len(w) - 1) = w
  IN IF Word(Literal.true) THEN Scanned("true", <<>>, 0, i + 4)
     ELSE IF Word(Literal.false) THEN Scanned("false", <<>>, 0, i + 5)
     ELSE IF Word(Literal.null) THEN Scanned("null", <<>>, 0, i + 4)
     ELSE BadScan

\* var tokens spotifyTokenStore
ZeroStored == [AccessToken |-> <<>>, RefreshToken |-> <<>>, ExpiresAt |-> 0,
               Scope |-> <<>>, TokenType |-> <<>>]

\* foldRune: the smallest character that differs from c by case only
FoldRune(c) ==
  IF c >= 97 /\ c <= 122 THEN c - 32
  ELSE IF c = 383 THEN Char.S
  ELSE IF c = 8490 THEN Char.K
  ELSE c

RECURSIVE FoldName(_)
FoldName(key) ==
  IF key = <<>> THEN <<>> ELSE <<FoldRune(Head(key))>> \o FoldName(Tail(key))

\* the value a field takes from a member: a string field takes a string,
\* the int64 field an integer literal, null leaves a field as it is and any
\* other value is an error
FieldValue(v, old, kind) ==
  IF v.kind = kind
  THEN [ok |-> TRUE, val |-> IF kind = "int" THEN v.num ELSE v.val]
  ELSE [ok |-> v.kind = "null", val |-> old]

\* the json tags with what they fold to
FoldedTags ==
  {<<FoldName(tag), tag>> :
     tag \in {Tag.AccessToken, Tag.RefreshToken, Tag.ExpiresAt, Tag.Scope,
              Tag.TokenType}}

\* the json tag a key equals, case ignored; <<>> when it names no field of
\* the struct
FieldOf(key) ==
  LET folded == FoldName(key)
  IN IF \E p \in FoldedTags : p[1] = folded
     THEN (CHOOSE p \in FoldedTags : p[1] = folded)[2]
     ELSE <<>>

\* the field of the struct a member is stored in; a member with another key
\* is skipped
StoreMember(t, key, v) ==
  LET tag == FieldOf(key)
      str(old) == FieldValue(v, old, "string")
      int(old) == FieldValue(v, old, "int")
  IN IF tag = Tag.AccessToken
     THEN [ok |-> str(t.AccessToken).ok,
           t |-> [t EXCEPT !.AccessToken = str(@).val]]
     ELSE IF tag = Tag.RefreshToken
     THEN [ok |-> str(t.RefreshToken).ok,
           t |-> [t EXCEPT !.RefreshToken = str(@).val]]
     ELSE IF tag = Tag.ExpiresAt
     THEN [ok |-> int(t.ExpiresAt).ok,
           t |-> [t EXCEPT !.ExpiresAt = int(@).val]]
     ELSE IF tag = Tag.Scope
     THEN [ok |-> str(t.Scope).ok, t |-> [t EXCEPT !.Scope = str(@).val]]
     ELSE IF tag = Tag.TokenType
     THEN [ok |-> str(t.TokenType).ok,
           t |-> [t EXCEPT !.TokenType = str(@).val]]
     ELSE [ok |-> TRUE, t |-> t]

\* any JSON value at position i; an array is scanned with what it holds and
\* an object is stored member by member into the struct t when it is the
\* top-level value (top), and only scanned when it is nested
RECURSIVE ScanValue(_, _)
RECURSIVE ScanElements(_, _)
RECURSIVE ElementEnd(_, _)
RECURSIVE ScanObject(_, _, _, _)
RECURSIVE ScanPairs(_, _, _, _)
RECURSIVE PairEnd(_, _, _, _, _)
ScanValue(d, i) ==
  IF i > Len(d) THEN BadScan
  ELSE IF d[i] = Char.quote THEN ScanString(d, i + 1, <<>>)
  ELSE IF d[i] = Char.minus \/ IsDigit(d[i]) THEN ScanNumber(d, i)
  ELSE IF d[i] = Char.lbracket
  THEN IF At(d, SkipSpace(d, i + 1), Char.rbracket)
       THEN Scanned("array", <<>>, 0, SkipSpace(d, i + 1) + 1)
       ELSE ScanElements(d, i + 1)
  ELSE IF d[i] = Char.lbrace THEN ScanObject(d, i, ZeroStored, FALSE)
  ELSE ScanLiteral(d, i)

\* the elements of an array from position i on
ScanElements(d, i) == ElementEnd(d, ScanValue(d, SkipSpace(d, i)))

\* what follows the element v: a comma and the next element, or the
\* closing bracket
ElementEnd(d, v) ==
  IF ~ v.ok THEN BadScan
  ELSE IF At(d, SkipSpace(d, v.next), Char.comma)
  THEN ScanElements(d, SkipSpace(d, v.next) + 1)
  ELSE IF At(d, SkipSpace(d, v.next), Char.rbracket)
  THEN Scanned("array", <<>>, 0, SkipSpace(d, v.next) + 1)
  ELSE BadScan

\* the object whose opening brace is at position i; its val is the struct
\* after its members were stored
ScanObject(d, i, t, top) ==
  IF At(d, SkipSpace(d, i + 1), Char.rbrace)
  THEN Scanned("object", t, 0, SkipSpace(d, i + 1) + 1)
  ELSE ScanPairs(d, i + 1, t, top)

\* the members of an object from position i on: a key, a colon and a value
ScanPairs(d, i, t, top) ==
  LET k == SkipSpace(d, i)
      key == ScanString(d, k + 1, <<>>)
      c == SkipSpace(d, key.next)
  IN IF ~ At(d, k, Char.quote) \/ ~ key.ok \/ ~ At(d, c, Char.colon)
     THEN BadScan
     ELSE PairEnd(d, t, top, key.val, ScanValue(d, SkipSpace(d, c + 1)))

\* the member with the value v is stored, when the object is the top-level
\* one; then a comma and the next member follow, or the closing brace
PairEnd(d, t, top, key, v) ==
  IF ~ v.ok \/ (top /\ ~ StoreMember(t, key, v).ok) THEN BadScan
  ELSE IF At(d, SkipSpace(d, v.next), Char.comma)
  THEN ScanPairs(d, SkipSpace(d, v.next) + 1,
                 IF top THEN StoreMember(t, key, v).t ELSE t, top)
  ELSE IF At(d, SkipSpace(d, v.next), Char.rbrace)
  THEN Scanned("object", IF top THEN StoreMember(t, key, v).t ELSE t, 0,
               SkipSpace(d, v.next) + 1)
  ELSE BadScan

\* the outcome of Unmarshal for the top-level value v: an object or null,
\* with nothing but white space after it
Stored(d, v) ==
  IF v.ok /\ v.kind \in {"object", "null"} /\ SkipSpace(d, v.next) > Len(d)
  THEN [ok |-> TRUE, t |-> IF v.kind = "object" THEN v.val ELSE ZeroStored]
  ELSE [ok |-> FALSE, t |-> ZeroStored]

\* json.Unmarshal(data, &tokens) into the zero struct: an object is stored
\* member by member, null stores nothing, any other text is an error
Unmarshal(d) ==
  Stored(d, IF At(d, SkipSpace(d, 1), Char.lbrace)
            THEN ScanObject(d, SkipSpace(d, 1), ZeroStored, TRUE)
            ELSE ScanValue(d, SkipSpace(d, 1)))

\* string literals of a token response, between their quotes: plain text,
\* the escapes of one letter and of a control character, raw characters
\* that Marshal escapes and \u escapes in both readings, a surrogate pair
\* and half of one, a byte that is not valid UTF-8 and characters outside
\* ASCII
ResponseLiterals ==
  { <<>>,
    Text(<<"A", "b">>),
    Text(<<"\\", "\"", "\\", "\\", "\\", "/", "\\", "n", "\\", "t",
           "\\", "b", "\\", "u", "0", "0", "1", "F">>),
    Text(<<"<", "&", ">", "\\", "u", "0", "0", "3", "c", "\\", "\\", "u",
           "0", "0", "3", "c", "\\", "u", "2", "0", "2", "8">>),
    Text(<<"\\", "u", "d", "8", "3", "d", "\\", "u", "d", "e", "0", "0",
           "\\", "u", "d", "8", "3", "d">>)
      \o <<InvalidByte, 127, 233, 8233, 65533, 128512>> }

\* the Go strings json.NewDecoder(resp.Body).Decode(&tokenResp) yields for
\* them
ResponseStrings ==
  {ScanString(Append(lit, 34), 1, <<>>).val : lit \in ResponseLiterals}

\* a token response with the strings a and r
GrantedResponse ==
  [access_token |-> <<>>, expires_in |-> 0, refresh_token |-> <<>>,
   scope |-> Text(<<"u", "s", "e", "r", "-", "r", "e", "a", "d", " ", "x">>),
   token_type |-> Text(<<"B", "e", "a", "r", "e", "r">>)]
ResponseWith(a, r, e) ==
  [GrantedResponse EXCEPT
     !.access_token = a, !.expires_in = e, !.refresh_token = r]

\* the records exchangeCodeForToken and refreshAccessToken can build from a
\* token response (a usual, a short and a negative expires_in; with and
\* without a refresh token), and the zero record
TokenRecords ==
  {ZeroStored} \cup
  {TokenFromResponse(ResponseWith(a, Text(<<"R">>), 3600), 0) :
     a \in ResponseStrings}
  \cup
  {TokenFromResponse(ResponseWith(Text(<<"A">>), <<>>, freshMargin), 0),
   TokenFromResponse(ResponseWith(Text(<<"A">>), <<10>>, -1), 0)}

\* a file with the given text
TextFile(text) ==
  [exists |-> TRUE, parses |-> Unmarshal(text).ok, data |-> text]

\* the file saveTokens writes
WriteFile(t) == TextFile(MarshalIndent(t))

\* the lengths at which a failing write may have stopped: nothing written,
\* half of the text, and all of it (only the close failed)
WriteCuts(text) == {0, Len(text) \div 2, Len(text)}

\* the files a saveTokens(t) that returns an error may leave: the file as
\* it was (spotifyTokenPath, MkdirAll or the open failed), or what a write
\* that failed has left of the text
FailedWrite(d, t) ==
  LET text == MarshalIndent(t)
  IN {d} \cup {TextFile(SubSeq(text, 1, n)) : n \in WriteCuts(text)}

\* saveTokens(t): m.tokens is assigned first; MkdirAll or WriteFile may fail
saveTokens(t) ==
  /\ mu = Unlocked
  /\ tokens' = TokensPtr(t)
  /\ \/ disk' = WriteFile(t) /\ result' = Failed("save", "nil")
     \/ disk' \in FailedWrite(disk, t) /\ result' = Failed("save", "persist")
  /\ UNCHANGED <<profile, verifier, state, redirect, server, loginWait, mu,
                 now, listening, attempts, pending, arrived, resp,
                 exchangeCalls, ops, refreshCalls, watchVars, fetchVars,
                 freshAt, serveVars>>

\* loadTokensFromDisk: m.tokens is assigned only when the file was read and
\* parsed; the path lookup, the read and the parse may fail
loadTokensFromDisk ==
  /\ mu = Unlocked
  /\ \/ /\ tokens' = tokens
        /\ result' = Failed("load", "load failed")
     \/ IF ~ disk.exists
          THEN /\ tokens' = tokens
               /\ result' = Failed("load", "no file")
          ELSE IF Unmarshal(disk.data).ok
          THEN /\ tokens' = TokensPtr(Unmarshal(disk.data).t)
               /\ result' = Failed("load", "nil")
          ELSE /\ tokens' = tokens
               /\ result' = Failed("load", "unmarshal")
  /\ UNCHANGED <<profile, verifier, state, redirect, server, loginWait, mu,
                 disk, now, listening, attempts, pending, arrived, resp,
                 exchangeCalls, ops, refreshCalls, watchVars, fetchVars,
                 freshAt, serveVars>>

StoreNext ==
  \/ \E t \in TokenRecords : saveTokens(t)
  \/ loadTokensFromDisk

StoreInit ==
  /\ AuthIdle
  /\ FetchIdle

StoreSpec == StoreInit /\ [][StoreNext]_vars

(***************************************************************************)
(* The whole manager: the login flow and the session operations called     *)
(* from different goroutines, in any order.                                *)
(***************************************************************************)
ManagerNext ==
  \/ StartLogin /\ WithinBudget
  \/ CallbackArrive /\ WithinBudget
  \/ \E r \in BagToSet(pending) : CallbackBegin(r)
  \/ CallbackExchange
  \/ CallbackCheck
  \/ CallbackRefresh
  \/ CallbackProfile
  \/ \E k \in starting : Serve(k)
  \/ statusBegin /\ WithinBudget
  \/ \E op \in LibraryOps : libraryBegin(op) /\ WithinBudget
  \/ opRefresh
  \/ fetchProfileLocked
  \/ statusProfile
  \/ logout /\ WithinBudget
  \/ Tick /\ WithinBudget

\* a first run: no token file yet
ManagerInit ==
  /\ AuthIdle
  /\ FetchIdle

ManagerSpec == ManagerInit /\ [][ManagerNext]_vars

WorkerStep ==
  \E w \in BagToSet(workers) :
    \/ DispatchJob(w)
    \/ CheckCtx(w)
    \/ FetchCall(w)
    \/ FetchReturn(w)
    \/ Collect(w)
    \/ WorkerExit(w)

FetchProgress ==
  \/ CallerFirstPage
  \/ CallerAppend
  \/ Entry
  \/ SpawnWorker
  \/ SpawnDispatcher
  \/ CollectDone
  \/ Final
  \/ CloseJobs
  \/ CloseResults
  \/ WorkerStep

Next ==
  \/ FetchProgress
  \/ Cancel

Init == FetchInit /\ AuthIdle

Spec == Init /\ [][Next]_vars

\* the same calls plus calls with more offsets than workers
WideInit == (FetchInit \/ WideStart) /\ AuthIdle

WideSpec == WideInit /\ [][Next]_vars

\* every goroutine that can take a step eventually takes one, and every
\* fetch invocation returns
LiveSpec == Init /\ [][Next]_vars /\ WF_fetchVars(FetchProgress)

(***************************************************************************)
(* Properties of the paginated fetch coordinator.                          *)
(***************************************************************************)
Returned == pc \in {"rtpw_ret", "done"}

StrictlyAscending(s) ==
  \A i \in 1..(Len(s) - 1) : s[i].offset < s[i + 1].offset

\* C1: when runTrackPageWorkers returns without error, the page results
\* are in strictly ascending offset order, and the caller's track list is
\* the first page followed by the pages in that order.
C1_AscendingOffsets ==
  /\ (Returned /\ ret.err = NoErr) => StrictlyAscending(ret.results.elems)
  /\ (pc = "done" /\ callerErr = NoErr) =>
        /\ ~ tracks.isNil
        /\ tracks.elems = AppendPages(FirstPageTracks, ret.results.elems)

\* a call that merged at least two pages after the first one has returned
C1_Witness ==
  /\ pc = "done"
  /\ callerErr = NoErr
  /\ Len(ret.results.elems) >= 2
  /\ Len(tracks.elems) > Limit(caller)

\* every page fetched one after the other in offset order, concatenated
RECURSIVE SequentialFetch(_)
SequentialFetch(offset) ==
  IF offset >= total THEN <<>>
  ELSE (IF offset = 0 THEN FirstPageTracks ELSE PageTracks(offset))
       \o SequentialFetch(offset + Limit(caller))

\* C2: when no fetch fails, the track sequence produced through the
\* concurrent coordinator equals the one of a strictly sequential fetch of
\* every page in offset order.
C2_EqualsSequential ==
  (pc = "done" /\ callerErr = NoErr) => tracks.elems = SequentialFetch(0)

\* a call over three pages with nil tracks dropped has completed
C2_Witness ==
  /\ pc = "done"
  /\ callerErr = NoErr
  /\ Len(offsets) >= 2
  /\ recvCount = Len(offsets)
  /\ tracks.elems # <<>>
  /\ Len(tracks.elems) < total

\* C3: if a page result carried an error, the call returns no results and
\* an error tagged with the offset of the first error result the collector
\* received (arrival order); with one failing page that is its offset.
C3_FirstErrorWins ==
  /\ [](Returned /\ errOffsets # {} =>
          /\ ret.results = NilSlice
          /\ ret.err.kind = "failed fetching tracks at offset"
          /\ ret.err.offset \in errOffsets
          /\ (Cardinality(errOffsets) = 1 => errOffsets = {ret.err.offset}))
  /\ [][(firstErr = NoErr /\ errOffsets' # errOffsets)
          => /\ firstErr'.kind = "failed fetching tracks at offset"
             /\ errOffsets' = errOffsets \cup {firstErr'.offset}]_vars
  /\ [][(recvCount' = recvCount + 1 /\ firstErr # NoErr)
          => firstErr' = firstErr]_vars

\* two pages failed and the reported offset is not the lowest failing one
C3_Witness ==
  /\ Returned
  /\ Cardinality(errOffsets) = 2
  /\ \E o \in errOffsets : o < ret.err.offset
  /\ ret.results = NilSlice

\* C4: the call terminates with no goroutine left blocked: jobs is closed
\* after every offset was fed, results is closed only after all workers
\* finished, and the collector has received one result per offset before
\* the call returns, also when an error was recorded.
C4_TerminatesDrained ==
  /\ <>(pc = "done")
  /\ [](jobsClosed => jobsNext > Len(offsets))
  /\ [](resultsClosed => (jobsClosed /\ NumWorkersAt("exit") = spawned))
  /\ []((Returned /\ Len(offsets) > 0) =>
          /\ recvCount = Len(offsets)
          /\ dpc = "done"
          /\ NumWorkersAt("exit") = BagCardinality(workers))

\* a call with a failed page has returned after all results were received
C4_Witness ==
  /\ pc = "done"
  /\ Len(offsets) >= 2
  /\ errOffsets # {}
  /\ recvCount = Len(offsets)
  /\ resultsClosed
  /\ NumWorkersAt("exit") = workerCount

\* C5: one call spawns min(8, len(offsets)) workers; with zero offsets it
\* spawns no worker and no dispatcher and returns an empty result, no error.
C5_WorkerCount ==
  /\ BagCardinality(workers) = spawned
  /\ spawned <= Min(spotifyWorkerCount, Len(offsets))
  /\ (pc \in {"collect", "final", "rtpw_ret"} /\ Len(offsets) > 0) =>
        spawned = Min(spotifyWorkerCount, Len(offsets))
  /\ (dpc # "none") => spawned = Min(spotifyWorkerCount, Len(offsets))
  /\ (Returned /\ Len(offsets) = 0) =>
        /\ spawned = 0
        /\ dpc = "none"
        /\ ret = [results |-> NilSlice, err |-> NoErr]

\* a call with more offsets than spotifyWorkerCount has returned
C5_Witness ==
  /\ pc = "rtpw_ret"
  /\ Len(offsets) > spotifyWorkerCount
  /\ spawned = spotifyWorkerCount

NumCtxResults ==
  BagCardinality([w \in {x \in BagToSet(workers) :
                          x.pc = "send" /\ x.err = CtxErr} |-> workers[w]])

\* C6 as stated: once the cancellation signal has fired, no fetch
\* invocation is started.
C6_Original == [][ctxDone => fetchCalls' = fetchCalls]_vars

\* C6 amended: once the cancellation signal has fired, every cancellation
\* check of a worker takes the error branch: the job yields an error result
\* for its offset and never reaches the fetch call. (A worker that did its
\* check before the signal fired may still start its fetch.)
C6_CheckShortCircuits ==
  /\ [][ctxDone => NumWorkersAt("call")' <= NumWorkersAt("call")]_vars
  /\ [][(ctxDone /\ NumWorkersAt("check")' < NumWorkersAt("check"))
          => NumCtxResults' = NumCtxResults + 1]_vars

\* a worker holds a cancellation result while another fetch is in flight
C6_Witness ==
  /\ ctxDone
  /\ NumCtxResults > 0
  /\ NumWorkersAt("infetch") > 0

\* C7: if the signal has fired when the result stream is drained and no
\* page error was recorded, the call returns the cancellation error and no
\* results; it never returns results when the final check sees the signal.
C7_CancelReported ==
  (Returned /\ Len(offsets) > 0 /\ ctxDone) =>
     /\ ret.results = NilSlice
     /\ ret.err # NoErr
     /\ (errOffsets = {} => ret.err = CtxErr)

\* every page was fetched successfully and the call reports cancellation
C7_Witness ==
  /\ Returned
  /\ ctxDone
  /\ Len(offsets) >= 2
  /\ errOffsets = {}
  /\ Len(collected) = Len(offsets)
  /\ ret = [results |-> NilSlice, err |-> CtxErr]

\* C8 as stated: after the collector has observed an error result, no
\* fetch is started for offsets not yet started.
C8_Original == [][firstErr # NoErr => fetchCalls' = fetchCalls]_vars

\* C8 amended: the first observed error decides the outcome (it is never
\* replaced, not even by cancellation, and it is what the call returns,
\* with no results), but nothing is aborted: the call returns only after
\* every offset was dispatched and reported.
C8_FirstErrorDecides ==
  /\ [][firstErr # NoErr => firstErr' = firstErr]_vars
  /\ []((Returned /\ ret.err # NoErr) =>
          /\ ret.err = firstErr
          /\ ret.results = NilSlice
          /\ jobsNext > Len(offsets)
          /\ recvCount = Len(offsets))

\* an error was observed while an offset was not even dispatched
C8_Witness ==
  /\ pc = "collect"
  /\ firstErr # NoErr
  /\ jobsNext <= Len(offsets)

(***************************************************************************)
(* Claims about handleCallback (specification AuthSpec).                   *)
(***************************************************************************)
\* the step in which the handler of request r takes m.mu and reads the query
HandlerStarts(r) ==
  /\ arrived' = arrived
  /\ pending' = pending (-) SetToBag({r})
  /\ pending' # pending

\* a step in which some handler writes its response and returns
HandlerReturns ==
  /\ mu' = Unlocked
  /\ \/ mu.op = "callback"
     \/ \E r \in BagToSet(pending) : HandlerStarts(r)

\* C9: a callback whose state parameter differs from m.state is answered 400
\* in the step that reads it (with "state mismatch" when state and code are
\* both present), exchangeCodeForToken is not invoked for it and m.tokens and
\* the token file stay as they were; the handler is never past its checks
\* with a request whose state differs from m.state.
C9_StateMismatchRejected ==
  /\ [](mu.op = "callback" => mu.req.state = state /\ mu.req.code # "")
  /\ [][\A r \in BagToSet(pending) :
          (HandlerStarts(r) /\ r.state # state) =>
             /\ resp'.req = r
             /\ resp'.status = 400
             /\ (r.state # 0 /\ r.code # "") => resp'.outcome = "state mismatch"
             /\ exchangeCalls' = exchangeCalls
             /\ tokens' = tokens
             /\ disk' = disk
             /\ mu' = Unlocked]_vars

\* a forged callback was rejected while tokens loaded from disk were stored,
\* and no exchange has been attempted
C9_Witness ==
  /\ resp.outcome = "state mismatch"
  /\ resp.req.state = ForgedState
  /\ exchangeCalls = 0
  /\ tokens.present

\* C10: whenever a handler returns, its status is 400 exactly when state or
\* code is missing or the state differs from m.state, 500 exactly when the
\* exchange, the persistence or the profile fetch failed, and 200 exactly
\* when all three succeeded: the tokens are stored and on disk and m.profile
\* is the profile just fetched.
C10_ResponseStatus ==
  [][HandlerReturns =>
       LET r == resp'.req
           invalid == r.state = 0 \/ r.code = "" \/ r.state # state
       IN /\ resp'.status \in {200, 400, 500}
          /\ resp'.status = 400 <=> invalid
          /\ resp'.status = 400 <=>
               resp'.outcome \in {"missing state or code", "state mismatch"}
          /\ resp'.status = 500 <=>
               resp'.outcome \in {"exchange", "persist", "profile"}
          /\ resp'.status = 200 <=> resp'.outcome = "ok"
          /\ resp'.status = 200 =>
               /\ mu.pc = "profile"
               /\ tokens.present
               /\ tokens' = tokens
               /\ disk' = FileOf(tokens.t)
               /\ profile' = ProfileOf(AccountOfAccess(tokens.t.AccessToken))]_vars

\* one callback of a login attempt was refused and a later one succeeded
C10_Witness ==
  /\ resp.status = 200
  /\ profile.present
  /\ loginWait.full
  /\ loginWait.val # "nil"

\* C11: whenever a handler returns, on whichever exit path, the loopback
\* server is closed (the listener of the manager's server and the listener
\* of the server that accepted the request are not open any more) and
\* m.server is nil.
C11_ServerClosedOnReturn ==
  [][HandlerReturns =>
       /\ server' = 0
       /\ server \notin listening'
       /\ resp'.req.srv \notin listening']_vars

\* C12: the token exchange is invoked at most once per startLogin, however
\* many callback requests arrive.
C12_OneExchangePerLogin == exchangeCalls <= attempts

\* C13: at most one loopback server is listening at any time.
C13_OneServerListening == Cardinality(listening) <= 1

\* C14: the result channel holds at most one value: the push of a returning
\* handler fills an empty channel with its outcome and is dropped, leaving
\* the channel as it was, when the slot is occupied; a push on the nil
\* channel is dropped as well. The handler returns in the step of its push.
C14_SingleSlot ==
  /\ [](loginWait.full => loginWait.made)
  /\ [](\A e \in {"nil", "state mismatch", "exchange"} :
          pushLoginError(NilChan, e) = NilChan)
  /\ [][HandlerReturns =>
          /\ loginWait'.made = loginWait.made
          /\ loginWait' =
               IF loginWait.made /\ ~ loginWait.full
               THEN [made |-> TRUE, full |-> TRUE,
                     val |-> LoginErr(resp'.outcome)]
               ELSE loginWait]_vars

\* the channel holds the error of a first callback; the nil outcome of a
\* second, successful one was dropped
C14_Witness ==
  /\ loginWait.full
  /\ loginWait.val = "state mismatch"
  /\ resp.outcome = "ok"
  /\ mu = Unlocked

(***************************************************************************)
(* Claims about status, logout and the freshness check (SessionSpec).      *)
(***************************************************************************)
\* the step in which logout runs
LogoutStep ==
  /\ ops' = ops + 1
  /\ mu' = Unlocked
  /\ result'.op = "logout"

\* the step in which status takes m.mu
StatusStarts ==
  /\ ops' = ops + 1
  /\ \/ mu'.op = "status"
     \/ mu' = Unlocked /\ result'.op = "status"

\* the step in which status or a library operation takes m.mu
OpStarts == ops' = ops + 1 /\ ~ LogoutStep

\* the step in which the fetchProfileLocked of status makes the second
\* freshness check of the call
SecondCheck ==
  /\ mu.op = "status"
  /\ mu.pc = "check2"
  /\ mu' # mu

\* a step in which ensureFreshTokenLocked reads the clock: the check of an
\* operation that has just taken m.mu, or the second check of status
CheckStep == OpStarts \/ SecondCheck

\* the record the freshness check of that step looks at: for status the one
\* m.tokens holds after its load from the file, nil when that load failed
CheckedTokens ==
  IF StatusStarts THEN tokens' ELSE tokens

\* C15: an authenticated operation whose token has 30 s or more left makes
\* no refresh call, and one whose token has less than 30 s left (and a
\* refresh token) makes exactly one before it proceeds.
C15_RefreshBelowThirty ==
  [][(OpStarts /\ CheckedTokens.present) =>
       LET left == CheckedTokens.t.ExpiresAt - now
       IN /\ left >= freshMargin => refreshCalls' = refreshCalls
          /\ (left < freshMargin /\ CheckedTokens.t.RefreshToken # "") =>
                refreshCalls' = refreshCalls + 1]_vars

\* C16: when the record a freshness check looks at (the check of status or
\* of a library operation, or the second check of status) is stale and has
\* no refresh token, the operation returns the missing-refresh-token error
\* in that step, no refresh call is made, and the in-memory record and the
\* token file are the ones the check found.
C16_MissingRefreshToken ==
  [][(CheckStep /\ CheckedTokens.present
        /\ ~ (now + freshMargin < CheckedTokens.t.ExpiresAt)
        /\ CheckedTokens.t.RefreshToken = "") =>
       /\ mu' = Unlocked
       /\ result'.err = "missing refresh token"
       /\ ~ result'.Authenticated
       /\ ~ result'.proceeds
       /\ refreshCalls' = refreshCalls
       /\ tokens' = (IF StatusStarts THEN LoadedTokens(tokens, disk) ELSE tokens)
       /\ disk' = disk]_vars

\* an operation failed on a stale record without refresh token
C16_Witness ==
  /\ result.err = "missing refresh token"
  /\ tokens.present
  /\ tokens.t.RefreshToken = ""
  /\ refreshCalls = 0
  /\ disk = FileOf(tokens.t)

\* the step in which a refresh request of status or a library operation
\* returns
RefreshReturns ==
  /\ mu.op \in LibraryOps \cup {"status"}
  /\ mu.pc \in {"refresh", "refresh2"}
  /\ mu' # mu

\* C17: a refresh never empties the stored refresh token: the new record
\* holds the token the refresh was made with (or the one the provider
\* sent), in memory and in the file written.
C17_RefreshTokenRetained ==
  /\ []((mu.op \in LibraryOps \cup {"status"} /\ mu.pc \in {"refresh", "refresh2"})
          => tokens.t.RefreshToken # "")
  /\ [][RefreshReturns =>
          /\ tokens'.present
          /\ tokens'.t.RefreshToken # ""
          /\ tokens'.t.RefreshToken \in
               {tokens.t.RefreshToken,
                RefreshOf(AccountOfRefresh(tokens.t.RefreshToken))}
          /\ disk'.parses => disk'.data.refresh_token # ""]_vars

\* a refresh made after the clock advanced was stored and written
C17_Witness ==
  /\ refreshCalls >= 1
  /\ now = 1
  /\ tokens.present
  /\ tokens.t.ExpiresAt > now + freshMargin
  /\ tokens.t.RefreshToken # ""
  /\ disk = FileOf(tokens.t)
  /\ mu = Unlocked

\* C18: every logout, also one made when nothing is stored or right after
\* another logout, returns nil and leaves no token and no profile in memory
\* and no token file.  Violated: logout returns nil also when the file was
\* not removed.
C18_LogoutClears ==
  [][LogoutStep =>
       /\ tokens' = NilTokens
       /\ profile' = NilProfile
       /\ disk' = NoFile
       /\ result'.err = "nil"
       /\ mu' = Unlocked]_vars

\* C19 as stated: status with no token in memory and no token file returns
\* Authenticated=false and no error in the step it starts.  Violated: the
\* load may fail with an error other than "not exist", which status returns.
C19_Original ==
  [][(StatusStarts /\ ~ tokens.present /\ ~ disk.exists) =>
       result' = Failed("status", "nil")]_vars

\* the step in which status returns the error of its load from the file
StatusLoadFails ==
  /\ StatusStarts
  /\ mu' = Unlocked
  /\ result' = Failed("status", "load failed")

\* C19: status with no token in memory and no token file returns
\* Authenticated=false in the step it starts, with no refresh call and no
\* profile request, and with no error unless the load from the file failed
\* with an error other than "not exist", which it returns; status reads
\* the token file only when no token is held in memory, and a failed load
\* leaves the memory empty and ends the call.
C19_StatusUnauthenticated ==
  /\ [][(StatusStarts /\ ~ tokens.present /\ ~ disk.exists) =>
          /\ mu' = Unlocked
          /\ \/ result' = Failed("status", "nil")
             \/ StatusLoadFails
          /\ ~ result'.Authenticated
          /\ refreshCalls' = refreshCalls
          /\ tokens' = NilTokens
          /\ profile' = profile
          /\ disk' = disk]_vars
  /\ [][(StatusStarts /\ tokens.present) =>
          (tokens' = tokens /\ ~ StatusLoadFails)]_vars
  /\ [][(StatusStarts /\ ~ tokens.present /\ disk.exists) =>
          \/ tokens' = TokensPtr(UnmarshalTokens(disk.data)) /\ ~ StatusLoadFails
          \/ /\ StatusLoadFails
             /\ tokens' = NilTokens
             /\ refreshCalls' = refreshCalls
             /\ profile' = profile
             /\ disk' = disk]_vars

\* status reported unauthenticated after a logout removed the stored token
C19_Witness ==
  /\ result = Failed("status", "nil")
  /\ ops >= 2
  /\ ~ tokens.present
  /\ ~ disk.exists
  /\ refreshCalls = 0

\* C20: the persisted token record, if present, has a non-empty access
\* token.
C20_AccessTokenPersistedNonEmpty ==
  disk.parses => disk.data.access_token # ""

\* the step in which an operation returns because its freshness check
\* failed: the provider rejected the refresh, or the stale record has no
\* refresh token
RefreshFails ==
  /\ mu' = Unlocked
  /\ result' # result
  /\ result'.err \in {"refresh failed", "missing refresh token"}

\* C21: after a freshness check failed (refresh rejected, or no refresh
\* token stored) the manager holds no token record.
C21_FailedRefreshUnauthenticates ==
  [][RefreshFails => tokens' = NilTokens]_vars

\* C22: a load of the token file right after a save that wrote it finds the
\* file and parses it, and unless the read itself fails it yields the record
\* that was saved, field by field.
C22_SaveLoadRoundTrip ==
  [][(result.op = "save" /\ result.err = "nil" /\ result'.op = "load") =>
       /\ result'.err \in {"nil", "load failed"}
       /\ result'.err = "nil" =>
            /\ tokens'.present
            /\ tokens'.t.AccessToken = tokens.t.AccessToken
            /\ tokens'.t.RefreshToken = tokens.t.RefreshToken
            /\ tokens'.t.ExpiresAt = tokens.t.ExpiresAt
            /\ tokens'.t.Scope = tokens.t.Scope
            /\ tokens'.t.TokenType = tokens.t.TokenType]_vars

\* a record whose access token holds a backslash and whose refresh token
\* is set was loaded back from the text a save wrote
C22_Witness ==
  /\ result = Failed("load", "nil")
  /\ tokens.present
  /\ \E k \in DOMAIN tokens.t.AccessToken :
        tokens.t.AccessToken[k] = Char.backslash
  /\ tokens.t.RefreshToken # <<>>
  /\ tokens.t.ExpiresAt > freshMargin
  /\ disk = WriteFile(tokens.t)

\* the fields and the file that m.mu protects
Protected ==
  <<tokens, profile, verifier, state, redirect, server, loginWait, disk>>

\* a step in which startLogin, a handler, status, logout or a library
\* operation takes m.mu
TakesLock ==
  \/ attempts' # attempts
  \/ ops' # ops
  \/ \E r \in BagToSet(pending) : HandlerStarts(r)

\* C23: while an operation holds m.mu no other operation starts, and the
\* token, the profile, the login session fields and the token file change
\* only in a step of the holder; with m.mu free they change only in the step
\* of an operation that takes m.mu.
C23_MutualExclusion ==
  /\ [][mu # Unlocked => ~ TakesLock]_vars
  /\ [][(mu # Unlocked /\ Protected' # Protected) =>
          /\ mu' # mu
          /\ mu' = Unlocked \/ (mu'.op = mu.op /\ mu'.req = mu.req)]_vars
  /\ [][(mu = Unlocked /\ Protected' # Protected) => TakesLock]_vars

\* status is refreshing the token of a completed login under m.mu while
\* another callback request waits for the lock
C23_Witness ==
  /\ mu.op = "status"
  /\ mu.pc = "refresh"
  /\ pending # EmptyBag
  /\ disk.exists
  /\ exchangeCalls >= 1

\* C24: once the ctx of a startLogin that opened server k is done, server k
\* is eventually closed, also when no callback request ever arrives.
C24_ServerClosedAfterCancel ==
  \A k \in 1..MaxLogins : (k \in ctxFired) ~> (k \notin listening)

\* the ctx of the only login attempt fired and its server is closed although
\* no callback request arrived: m.server still refers to it
C24_Witness ==
  /\ attempts = 1
  /\ arrived = 0
  /\ server = 1
  /\ listening = {}
  /\ watching = {}
  /\ ctxFired = {}

\* the positions at which an operation waits for the answer of a token
\* exchange, a refresh or a profile request
NetworkCalls == {"exchange", "refresh", "refresh2", "profile"}

\* calls are left in the run for status, logout and a library operation to
\* be made, and for startLogin
CallsLeft == ops < MaxOps /\ Events < MaxEvents
LoginsLeft == attempts < MaxLogins /\ Events < MaxEvents

\* C25 as stated: while an operation waits for the answer of a network call,
\* status, logout and startLogin can still be run.
C25_Original ==
  (mu.pc \in NetworkCalls) =>
     /\ CallsLeft => (ENABLED statusBegin /\ ENABLED logout)
     /\ LoginsLeft => ENABLED StartLogin

\* C25, amended: a token exchange, a refresh and a profile request are made
\* with m.mu held, and until they return neither status, logout, startLogin
\* nor a library operation can start; a library operation has released m.mu
\* when it goes on to its catalog requests, and with m.mu free every
\* operation can start.
C25_BlockedOnlyByLock ==
  /\ [](mu.pc \in NetworkCalls =>
          /\ mu # Unlocked
          /\ ~ ENABLED statusBegin
          /\ ~ ENABLED logout
          /\ ~ ENABLED StartLogin
          /\ \A op \in LibraryOps : ~ ENABLED libraryBegin(op))
  /\ [][(result' # result /\ result'.proceeds) => mu' = Unlocked]_vars
  /\ [](mu = Unlocked =>
          /\ CallsLeft => /\ ENABLED statusBegin
                          /\ ENABLED logout
                          /\ \A op \in LibraryOps : ENABLED libraryBegin(op)
          /\ LoginsLeft => ENABLED StartLogin)

\* a handler waits for the token exchange with m.mu held while calls of
\* status, logout and startLogin are still to come
C25_Witness ==
  /\ mu.op = "callback"
  /\ mu.pc = "exchange"
  /\ CallsLeft
  /\ LoginsLeft
  /\ Events < ManagerBudget

\* the positions of the page of len items at offset whose track is not nil
PresentAt(offset, len) ==
  {i \in offset..(offset + len - 1) : i \notin nulls}

\* ts holds one track for every position of the page with a track, in the
\* order of the page, and nothing else
IsConversionOf(ts, offset, len) ==
  /\ Len(ts) = Cardinality(PresentAt(offset, len))
  /\ \A k \in 1..Len(ts) :
       /\ ts[k].SpotifyID # 0
       /\ (ts[k].SpotifyID - 1) \in PresentAt(offset, len)
       /\ \A j \in 1..(k - 1) : ts[j].SpotifyID < ts[k].SpotifyID

\* C26: the track list of every page (the first page read by the caller and
\* every page a worker delivered) has exactly one track per item with a
\* track, in the order of the items, and nothing for an item whose track is
\* nil.
C26_NullTracksDropped ==
  /\ (pc \notin {"first", "done"}) =>
        IsConversionOf(tracks.elems, 0, firstLen)
  /\ \A i \in 1..Len(collected) :
        IsConversionOf(collected[i].tracks.elems, collected[i].offset,
                       PageLen(collected[i].offset, Limit(caller), total))

\* a delivered page lost exactly one item to a nil track, the first page too
C26_Witness ==
  /\ pc \notin {"first", "done"}
  /\ Len(tracks.elems) = firstLen - 1
  /\ \E i \in 1..Len(collected) :
        /\ Len(collected[i].tracks.elems) =
             PageLen(collected[i].offset, Limit(caller), total) - 1
        /\ Len(collected[i].tracks.elems) >= 1

\* the number of multiples limit, 2*limit, ... strictly below tot
PagesBeyondFirst(limit, tot) == IF tot <= 0 THEN 0 ELSE (tot - 1) \div limit

\* C27: once the first page was read, the offsets handed to
\* runTrackPageWorkers are the multiples limit, 2*limit, ... strictly below
\* total, and none when total is at most the length of the first page; and a
\* call that completes over full pages without nil tracks returns exactly
\* the tracks 1..total, each once, in order.
C27_OffsetsCoverTotal ==
  /\ (pc # "first" /\ callerErr # PageErr(0)) =>
        LET n == IF total <= firstLen THEN 0
                 ELSE PagesBeyondFirst(Limit(caller), total)
        IN /\ Len(offsets) = n
           /\ \A k \in 1..n : offsets[k] = k * Limit(caller)
  /\ (pc = "done" /\ callerErr = NoErr /\ nulls = {}
        /\ firstLen = PageLen(0, Limit(caller), total)) =>
        /\ Len(tracks.elems) = total
        /\ \A k \in 1..total : tracks.elems[k].SpotifyID = k

\* a call over a first page, a full page and a last page of one item
\* returned every track
C27_Witness ==
  /\ pc = "done"
  /\ callerErr = NoErr
  /\ nulls = {}
  /\ total = 2 * Limit(caller) + 1
  /\ offsets = <<Limit(caller), 2 * Limit(caller)>>
  /\ Len(tracks.elems) = total

\* the step in which library operation op takes m.mu
LibraryStarts(op) ==
  /\ ops' = ops + 1
  /\ \/ mu'.op = op
     \/ mu' = Unlocked /\ result'.op = op

\* the step in which a library operation returns from its locked prelude
LibraryReturns ==
  /\ result' # result
  /\ result'.op \in LibraryOps

\* C28: a library operation started with no token in memory returns "not
\* authenticated" in that step without a refresh call; an operation goes on
\* to its catalog requests only with the access token of a record that
\* passed the freshness test in the step it started, or that a refresh made
\* for it returned and saveTokens stored; and an operation that returns an
\* error makes no catalog request.
C28_LibraryPrelude ==
  /\ [][\A op \in LibraryOps :
          (LibraryStarts(op) /\ ~ tokens.present) =>
             /\ result' = Failed(op, "not authenticated")
             /\ mu' = Unlocked
             /\ refreshCalls' = refreshCalls
             /\ tokens' = tokens
             /\ disk' = disk]_vars
  /\ [][(LibraryReturns /\ result'.proceeds) =>
          /\ result'.err = "nil"
          /\ tokens'.present
          /\ result'.token = tokens'.t.AccessToken
          /\ \/ /\ mu = Unlocked
                /\ tokens.present
                /\ now + freshMargin < tokens.t.ExpiresAt
                /\ refreshCalls' = refreshCalls
             \/ /\ mu.op = result'.op
                /\ mu.pc = "refresh"
                /\ disk' = FileOf(tokens'.t)]_vars
  /\ [][(LibraryReturns /\ result'.err # "nil") =>
          /\ ~ result'.proceeds
          /\ result'.token = ""]_vars

\* a library operation called after logout was refused without any request
C28_Witness ==
  /\ result.op \in LibraryOps
  /\ result.err = "not authenticated"
  /\ ops = 2
  /\ refreshCalls = 0
  /\ ~ tokens.present

\* record t has more than 30 s left at the current time
Fresh(t) == now + freshMargin < t.ExpiresAt

\* the positions at which an operation waits for the answer of a refresh
RefreshCalls == {"refresh", "refresh2"}

\* C29 as stated: once a refresh has returned a token with more than 30 s
\* to expiry, the operations of the run make no further refresh call, so
\* the calls made are those made up to that refresh.  Violated: every
\* freshness check reads the clock anew, and a token that had 31 s left
\* when the refresh returned is stale at a check made a second later.
C29_Original ==
  freshAt.fresh => refreshCalls = freshAt.calls

\* C29, amended: operations that find the stored token stale are serialised
\* by m.mu around one refresh: the first makes one refresh call and no other
\* operation starts until it returned; when that refresh returns, m.tokens is
\* the refreshed record (also when the file could not be written); every
\* freshness check that reads the record fresh at its own reading of the
\* clock makes no refresh call, and a refresh call is made only by a check
\* that reads the record stale: the check of an operation that has taken
\* m.mu, or the second check of a status call.
C29_SingleRefresh ==
  /\ [][(CheckStep /\ CheckedTokens.present /\ ~ Fresh(CheckedTokens.t)
           /\ CheckedTokens.t.RefreshToken # "") =>
          /\ refreshCalls' = refreshCalls + 1
          /\ mu'.pc = (IF OpStarts THEN "refresh" ELSE "refresh2")]_vars
  /\ [][mu.pc \in RefreshCalls \cup {"check2"} =>
          (ops' = ops /\ ~ LogoutStep)]_vars
  /\ [][(RefreshReturns /\ result'.err # "refresh failed") =>
          /\ tokens'.present
          /\ (tokens'.t.ExpiresAt - now) \in ExpiresIns]_vars
  /\ [][(CheckStep /\ CheckedTokens.present /\ Fresh(CheckedTokens.t)) =>
          /\ refreshCalls' = refreshCalls
          /\ mu'.pc \notin RefreshCalls]_vars
  /\ [][refreshCalls' # refreshCalls =>
          /\ CheckStep
          /\ CheckedTokens.present
          /\ ~ Fresh(CheckedTokens.t)
          /\ refreshCalls' = refreshCalls + 1]_vars

\* two operations have returned without error at the same clock reading and
\* one refresh call was made for both
C29_Witness ==
  /\ ops = 2
  /\ now = 0
  /\ refreshCalls = 1
  /\ mu = Unlocked
  /\ result.op \in LibraryOps
  /\ result.proceeds
  /\ Fresh(tokens.t)
  /\ result.token = tokens.t.AccessToken

\* C30: a handler that starts on a request accepted by an earlier server,
\* after a newer startLogin opened the current one, leaves the current
\* server open and m.server and m.loginWait as they are.
C30_StaleCallbackHarmless ==
  [][\A r \in BagToSet(pending) :
       (HandlerStarts(r) /\ server # 0 /\ r.srv # server) =>
          /\ listening' = listening
          /\ server' = server
          /\ loginWait' = loginWait]_vars

\* C31: whenever the manager lock is free, a cached profile is the profile
\* of the account whose access token is held in memory.
C31_ProfileMatchesTokens ==
  (mu = Unlocked /\ tokens.present /\ profile.present
     /\ tokens.t.AccessToken # "") =>
     profile = ProfileOf(AccountOfAccess(tokens.t.AccessToken))

\* C32: a handler that answers 400 or 500 leaves the token record in memory
\* and the token file as they were; in particular the step in which it
\* fails changes neither.
C32_FailedCallbackKeepsTokens ==
  [][(HandlerReturns /\ resp'.status # 200) =>
       /\ tokens' = tokens
       /\ disk' = disk]_vars

\* the token file holds the record that is held in memory, if one is
MemoryMatchesFile ==
  tokens.present => (disk.parses /\ UnmarshalTokens(disk.data) = tokens.t)

\* a step of saveTokens in which m.tokens was assigned and the write
\* failed: the file is as it was, under another record in memory, or it
\* was truncated
WriteFails ==
  /\ mu.pc \in {"exchange", "refresh", "refresh2"}
  /\ tokens'.present
  /\ \/ tokens' # tokens /\ disk' = disk
     \/ disk' # disk /\ disk' = TruncatedFile

\* C33: with file writes that succeed, every step of the manager keeps the
\* token file equal to the record in memory: after saveTokens, after a load
\* and after logout (which leaves neither), so also whenever m.mu is free.
C33_MemoryFileCorrespondence ==
  [][(MemoryMatchesFile /\ ~ WriteFails) => MemoryMatchesFile']_vars

\* a login stored its record and a later refresh replaced it, in memory and
\* in the file, and m.mu is free
C33_Witness ==
  /\ mu = Unlocked
  /\ exchangeCalls >= 1
  /\ refreshCalls >= 1
  /\ ops >= 1
  /\ tokens.present
  /\ tokens.t.AccessToken # ""
  /\ disk = FileOf(tokens.t)
  /\ result.err = "nil"

\* C34: logout ends a pending login attempt: when it returns no loopback
\* server is listening and m.server is nil, so that no callback of an
\* attempt started before the logout can store tokens afterwards.
C34_LogoutEndsPendingLogin ==
  [][LogoutStep => (listening' = {} /\ server' = 0)]_vars

\* the step of a startLogin call
StartLoginStep == attempts' = attempts + 1

\* C35: startLogin leaves the token record, the cached profile and the token
\* file as they are (and returns with m.mu free); and status called while a
\* login is pending, with a fresh token and a cached profile in memory,
\* reports Authenticated=true with that profile and expiry.
C35_StartLoginFrame ==
  /\ [][StartLoginStep =>
          /\ tokens' = tokens
          /\ profile' = profile
          /\ disk' = disk
          /\ mu' = Unlocked]_vars
  /\ [][(StatusStarts /\ server # 0 /\ tokens.present /\ profile.present
           /\ now + freshMargin < tokens.t.ExpiresAt) =>
          /\ result'.op = "status"
          /\ result'.err = "nil"
          /\ result'.Authenticated
          /\ result'.UserID = profile.ID
          /\ result'.ExpiresAt = tokens.t.ExpiresAt
          /\ server' = server
          /\ mu' = Unlocked]_vars

\* status reported the session of the completed first login while the
\* second login attempt was pending
C35_Witness ==
  /\ attempts = 2
  /\ server = 2
  /\ listening = {2}
  /\ result.op = "status"
  /\ result.Authenticated
  /\ result.UserID = "A"
  /\ tokens.present
  /\ disk = FileOf(tokens.t)
  /\ mu = Unlocked

\* the number of fetch invocations made for offset o
CallsFor(o) == IF o \in BagToSet(fetchCalls) THEN fetchCalls[o] ELSE 0

\* the offsets handed to runTrackPageWorkers, as a set
OffsetSet == {offsets[k] : k \in 1..Len(offsets)}

\* C36: fetch is never invoked twice for an offset nor for anything that is
\* not one of the offsets; when runTrackPageWorkers has returned and its ctx
\* was not cancelled, fetch was invoked exactly once for every offset; and a
\* call that returns without error returns one page result per offset, in
\* the order of the offsets.
C36_OneFetchPerOffset ==
  /\ BagToSet(fetchCalls) \subseteq OffsetSet
  /\ \A o \in OffsetSet : CallsFor(o) <= 1
  /\ (Returned /\ ~ ctxDone) => \A o \in OffsetSet : CallsFor(o) = 1
  /\ (Returned /\ ret.err = NoErr) =>
        /\ Len(ret.results.elems) = Len(offsets)
        /\ \A k \in 1..Len(offsets) : ret.results.elems[k].offset = offsets[k]

\* a call over two offsets returned both pages, one of them empty because
\* all its tracks were nil, after one fetch for each offset
C36_Witness ==
  /\ pc = "rtpw_ret"
  /\ ~ ctxDone
  /\ ret.err = NoErr
  /\ Len(offsets) = 2
  /\ Len(ret.results.elems) = 2
  /\ ret.results.elems[1].tracks.elems = <<>>
  /\ CallsFor(offsets[1]) = 1
  /\ CallsFor(offsets[2]) = 1

====
